---------------------------- MODULE Spec2Model ----------------------------
(***************************************************************************)
(* A model of the org document engine of kpop/org (src/kpop/org/src/lib.rs):*)
(* the structural parser (parse_org_from_str), the inline markup parser    *)
(* (parse_inlines_str), the range-caching formatter (format_org_file) and  *)
(* the mutations collaborators apply to a parsed tree between the two.     *)
(*                                                                         *)
(* Text is modelled as TLA+ strings over ASCII; a `&str` that the Rust     *)
(* code advances through is the remaining suffix, exactly as in the code,  *)
(* so a byte offset is (length of the whole input) - (length of the        *)
(* remaining suffix).  Option<T> is modelled as a sequence of length 0     *)
(* (None) or 1 (Some).  A parser result (nom IResult) is a record          *)
(* [ok, div, rest, val]: on success rest is the remaining input, on        *)
(* failure rest is the fragment the error is reported at; div marks a call *)
(* that never returns.  A Rust `let x = e;` is written                     *)
(* With([x \in {e} |-> body]).                                             *)
(***************************************************************************)
EXTENDS Integers, Sequences, FiniteSets, TLC

VARIABLES
    input,      \* the text handed to parse_org_from_str
    pc,         \* position of the caller: see the actions
    file,       \* Option<OrgFile>: the tree returned by the parser
    err,        \* Option<error>: the failure returned by the parser
    formatted,  \* Option<String>: the text returned by the last format_org_file
    first,      \* Option<String>: the text returned by the first format pass
    edit,       \* record describing the mutations applied since the parse
    spin,       \* iterations made by a drawer loop that no longer advances
    istr,       \* the text handed to parse_inlines_str
    inl,        \* Option<Vec<Inline>>: the list returned by parse_inlines_str
    journal,    \* Option<String>: the text of the journal file given to build_from_files
    agenda,     \* Option<Vec<AgendaItem>>: the items the agenda projection returned
    tree        \* Option of the locals i, stack, roots of parse_headings_tree, with the
                \* number of headlines its outer loop has parsed

vars == <<input, pc, file, err, formatted, first, edit, spin, istr, inl, journal, agenda, tree>>

(***************************************************************************)
(* Option<T>                                                               *)
(***************************************************************************)
None == <<>>
Some(v) == <<v>>
IsSome(o) == Len(o) = 1
IsNone(o) == Len(o) = 0
Unwrap(o) == o[1]

\* `let x = e; body` is With([x \in {e} |-> body])
With(f) == f[CHOOSE x \in DOMAIN f : TRUE]

(***************************************************************************)
(* &str helpers (std::str)                                                 *)
(***************************************************************************)
CharAt(s, k) == SubSeq(s, k, k)
Take(s, n) == SubSeq(s, 1, n)
Drop(s, n) == SubSeq(s, n + 1, Len(s))
StartsWith(s, p) == Len(s) >= Len(p) /\ SubSeq(s, 1, Len(p)) = p
EndsWith(s, p) == Len(s) >= Len(p) /\ SubSeq(s, Len(s) - Len(p) + 1, Len(s)) = p

UpperChars == {"A","B","C","D","E","F","G","H","I","J","K","L","M",
               "N","O","P","Q","R","S","T","U","V","W","X","Y","Z"}
LowerChars == {"a","b","c","d","e","f","g","h","i","j","k","l","m",
               "n","o","p","q","r","s","t","u","v","w","x","y","z"}
DigitChars == {"0","1","2","3","4","5","6","7","8","9"}
AlphaChars == UpperChars \cup LowerChars
AlnumChars == AlphaChars \cup DigitChars
\* char::is_whitespace restricted to ASCII
WhiteChars == {" ", "\t", "\n", "\r", "\f"}
\* nom space0/space1: spaces and tabs
SpaceChars == {" ", "\t"}

\* index of the last char of the longest run of chars of `set` starting at k
SpanFrom(s, k, set) ==
    IF k > Len(s) THEN k - 1
    ELSE IF \A j \in k..Len(s) : CharAt(s, j) \in set THEN Len(s)
    ELSE (CHOOSE j \in k..Len(s) :
              /\ CharAt(s, j) \notin set
              /\ \A m \in k..(j - 1) : CharAt(s, m) \in set) - 1

SpanNotFrom(s, k, set) ==
    IF k > Len(s) THEN k - 1
    ELSE IF \A j \in k..Len(s) : CharAt(s, j) \notin set THEN Len(s)
    ELSE (CHOOSE j \in k..Len(s) :
              /\ CharAt(s, j) \in set
              /\ \A m \in k..(j - 1) : CharAt(s, m) \notin set) - 1

RECURSIVE FindFrom(_, _, _)
\* str::find: 0-based byte offset of the first occurrence of p at or after
\* offset k, or -1
FindFrom(s, p, k) ==
    IF k + Len(p) > Len(s) THEN -1
    ELSE IF SubSeq(s, k + 1, k + Len(p)) = p THEN k
    ELSE FindFrom(s, p, k + 1)

Find(s, p) == FindFrom(s, p, 0)

RECURSIVE RFindFrom(_, _, _)
\* str::rfind: 0-based offset of the last occurrence of p at or before k
RFindFrom(s, p, k) ==
    IF k < 0 THEN -1
    ELSE IF SubSeq(s, k + 1, k + Len(p)) = p THEN k
    ELSE RFindFrom(s, p, k - 1)

RFind(s, p) == RFindFrom(s, p, Len(s) - Len(p))

RECURSIVE TrimEndLen(_, _)
TrimEndLen(s, n) ==
    IF n > 0 /\ CharAt(s, n) \in WhiteChars THEN TrimEndLen(s, n - 1) ELSE n

TrimEnd(s) == Take(s, TrimEndLen(s, Len(s)))
TrimStart(s) == Drop(s, SpanFrom(s, 1, WhiteChars))
Trim(s) == TrimStart(TrimEnd(s))

RECURSIVE TrimEndMatchesLen(_, _, _)
TrimEndMatchesLen(s, c, n) ==
    IF n > 0 /\ CharAt(s, n) = c THEN TrimEndMatchesLen(s, c, n - 1) ELSE n

TrimEndMatches(s, c) == Take(s, TrimEndMatchesLen(s, c, Len(s)))

RECURSIVE Split(_, _)
\* str::split on a one-char separator
Split(s, c) ==
    LET k == Find(s, c)
    IN  IF k < 0 THEN <<s>> ELSE <<Take(s, k)>> \o Split(Drop(s, k + 1), c)

RECURSIVE Join(_, _)
\* [String]::join
Join(xs, sep) ==
    IF Len(xs) = 0 THEN ""
    ELSE IF Len(xs) = 1 THEN xs[1]
    ELSE xs[1] \o sep \o Join(Tail(xs), sep)

RECURSIVE Repeat(_, _)
\* str::repeat
Repeat(s, n) ==
    IF n <= 0 THEN ""
    ELSE IF n = 1 THEN s
    ELSE Repeat(s, n \div 2) \o Repeat(s, n - (n \div 2))

AllIn(s, set) == SpanFrom(s, 1, set) = Len(s)

(***************************************************************************)
(* nom combinators, as the parser uses them (nom 7, complete input)        *)
(***************************************************************************)
Ok(rest, val) == [ok |-> TRUE, div |-> FALSE, rest |-> rest, val |-> val]
Err(frag) == [ok |-> FALSE, div |-> FALSE, rest |-> frag, val |-> ""]
\* a call that never returns: a loop that no longer advances through `frag`
Diverge(frag) == [ok |-> FALSE, div |-> TRUE, rest |-> frag, val |-> ""]

tag(t, i) == IF StartsWith(i, t) THEN Ok(Drop(i, Len(t)), t) ELSE Err(i)

take_while(set, i) ==
    LET n == SpanFrom(i, 1, set) IN Ok(Drop(i, n), Take(i, n))

take_while1(set, i) ==
    LET n == SpanFrom(i, 1, set)
    IN  IF n = 0 THEN Err(i) ELSE Ok(Drop(i, n), Take(i, n))

\* take_till1(|c| c == delim) and is_not(chars): a non-empty run of chars
\* outside `set`
take_till1(set, i) ==
    LET n == SpanNotFrom(i, 1, set)
    IN  IF n = 0 THEN Err(i) ELSE Ok(Drop(i, n), Take(i, n))

take_until(t, i) ==
    LET k == Find(i, t)
    IN  IF k < 0 THEN Err(i) ELSE Ok(Drop(i, k), Take(i, k))

space0(i) == take_while(SpaceChars, i)
space1(i) == take_while1(SpaceChars, i)
digit1(i) == take_while1(DigitChars, i)

anychar(i) == IF Len(i) = 0 THEN Err(i) ELSE Ok(Drop(i, 1), CharAt(i, 1))

line_ending(i) ==
    IF StartsWith(i, "\n") THEN Ok(Drop(i, 1), "\n")
    ELSE IF StartsWith(i, "\r\n") THEN Ok(Drop(i, 2), "\r\n")
    ELSE Err(i)

\* the text up to the first "\n" or "\r\n"; a lone "\r" is an error reported
\* at the start of the line
not_line_ending(i) ==
    LET n == SpanNotFrom(i, 1, {"\r", "\n"})
    IN  IF n = Len(i) THEN Ok("", i)
        ELSE IF CharAt(i, n + 1) = "\r" /\ ~StartsWith(Drop(i, n), "\r\n") THEN Err(i)
        ELSE Ok(Drop(i, n), Take(i, n))

\* opt(line_ending) applied for its remaining input only
\* opt(line_ending) applied for its remaining input only
opt_line_ending(i) == IF StartsWith(i, "\n") THEN Drop(i, 1)
                      ELSE IF StartsWith(i, "\r\n") THEN Drop(i, 2) ELSE i

\* alt((p, q)) and `if let Ok(..) = p { .. }` falling through to q: the
\* first result unless it is an error
Alt(r, s) == IF r.ok \/ r.div THEN r ELSE s

(***************************************************************************)
(* INLINE MARKUP (mod parser)                                              *)
(***************************************************************************)
Text(s) == [t |-> "Text", s |-> s]
Emphasis(kind, children) == [t |-> "Emphasis", kind |-> kind, children |-> children]
Link(kind, desc) == [t |-> "Link", kind |-> kind, desc |-> desc]

\* link_kind_of with the Custom arm split at the last colon, not the first
link_kind_last_colon(s) ==
    IF StartsWith(s, "http://") \/ StartsWith(s, "https://")
    THEN [k |-> "Http", url |-> s]
    ELSE IF StartsWith(s, "id:")
    THEN [k |-> "Id", id |-> Drop(s, 3)]
    ELSE IF StartsWith(s, "file:")
    THEN (IF Find(Drop(s, 5), "::") >= 0
          THEN [k |-> "File", path |-> Take(Drop(s, 5), Find(Drop(s, 5), "::")),
                search |-> Some(Drop(s, 5 + Find(Drop(s, 5), "::") + 2))]
          ELSE [k |-> "File", path |-> Drop(s, 5), search |-> None])
    ELSE IF RFind(s, ":") >= 0
    THEN [k |-> "Custom", protocol |-> Take(s, RFind(s, ":")),
          target |-> Drop(s, RFind(s, ":") + 1)]
    ELSE [k |-> "File", path |-> s, search |-> None]

\* the arms of link_kind_from_target on the trimmed target
link_kind_of(s) ==
    IF StartsWith(s, "http://") \/ StartsWith(s, "https://")
    THEN [k |-> "Http", url |-> s]
    ELSE IF StartsWith(s, "id:")
    THEN [k |-> "Id", id |-> Drop(s, 3)]
    ELSE IF StartsWith(s, "file:")
    THEN (IF Find(Drop(s, 5), "::") >= 0
          THEN [k |-> "File", path |-> Take(Drop(s, 5), Find(Drop(s, 5), "::")),
                search |-> Some(Drop(s, 5 + Find(Drop(s, 5), "::") + 2))]
          ELSE [k |-> "File", path |-> Drop(s, 5), search |-> None])
    ELSE IF Find(s, ":") >= 0
    THEN [k |-> "Custom", protocol |-> Take(s, Find(s, ":")),
          target |-> Drop(s, Find(s, ":") + 1)]
    ELSE [k |-> "File", path |-> s, search |-> None]

link_kind_from_target(t) == link_kind_of(Trim(t))

RECURSIVE coalesce_from(_, _)
\* the loop of coalesce_text: `acc` is the vector built so far
coalesce_from(xs, acc) ==
    IF Len(xs) = 0 THEN acc
    ELSE IF Len(acc) > 0 /\ acc[Len(acc)].t = "Text" /\ xs[1].t = "Text"
    THEN coalesce_from(Tail(xs), [acc EXCEPT ![Len(acc)] = Text(acc[Len(acc)].s \o xs[1].s)])
    ELSE coalesce_from(Tail(xs), Append(acc, xs[1]))

coalesce_text(xs) == coalesce_from(xs, <<>>)

\* the chars parse_text_chunk stops at (is_plain is their complement)
NotPlainChars == {"[", "<", "*", "/", "_", "+", "~", "=", "\\", "h", "f", "i", "m"}

parse_text_chunk(i) ==
    With([r \in {take_till1(NotPlainChars, i)} |->
        IF r.ok THEN Ok(r.rest, Text(r.val)) ELSE r])

parse_entity_inline(i) ==
    With([a \in {tag("\\", i)} |-> IF ~a.ok THEN a ELSE
    With([b \in {take_while1(AlphaChars, a.rest)} |-> IF ~b.ok THEN b ELSE
        Ok(b.rest, [t |-> "Entity", s |-> "\\" \o b.val])])])

\* the alt of parse_autolink: the scheme the input starts with, or ""
autolink_scheme(i) ==
    IF StartsWith(i, "https://") THEN "https://"
    ELSE IF StartsWith(i, "http://") THEN "http://"
    ELSE IF StartsWith(i, "mailto:") THEN "mailto:"
    ELSE IF StartsWith(i, "file:") THEN "file:"
    ELSE IF StartsWith(i, "id:") THEN "id:"
    ELSE ""

\* the chars that end the body of a bare autolink
AutolinkStop == WhiteChars \cup {")", "]", ">"}

parse_autolink(i) ==
    With([scheme \in {autolink_scheme(i)} |-> IF scheme = "" THEN Err(i) ELSE
    With([r \in {take_till1(AutolinkStop, Drop(i, Len(scheme)))} |-> IF ~r.ok THEN r ELSE
        Ok(r.rest, Link(link_kind_from_target(scheme \o r.val), None))])])

parse_code_like(delim, make, i) ==
    With([a \in {tag(delim, i)} |-> IF ~a.ok THEN a ELSE
    With([b \in {take_till1({delim}, a.rest)} |-> IF ~b.ok THEN b ELSE
    With([c \in {tag(delim, b.rest)} |-> IF ~c.ok THEN c ELSE
        Ok(c.rest, [t |-> make, s |-> b.val])])])])

parse_target_inline(i) ==
    With([a \in {tag("<<", i)} |-> IF ~a.ok THEN a ELSE
    With([b \in {take_until(">>", a.rest)} |-> IF ~b.ok THEN b ELSE
        Ok(Drop(b.rest, 2), [t |-> "Target", s |-> b.val])])])

parse_footnote_ref(i) ==
    With([a \in {tag("[fn:", i)} |-> IF ~a.ok THEN a ELSE
    With([b \in {take_until("]", a.rest)} |-> IF ~b.ok THEN b ELSE
        Ok(Drop(b.rest, 1), [t |-> "FootnoteRef", s |-> b.val])])])

\* the guard of parse_emph_with: the chars an emphasis span may not open before
EmphNoOpen == {" ", "\n"}

RECURSIVE inline_atom(_)
RECURSIVE inline_step(_)
RECURSIVE parse_inlines_loop(_, _)
RECURSIVE parse_inlines_until(_, _, _)
RECURSIVE parse_inlines_str(_)
RECURSIVE parse_emph_with(_, _, _)
RECURSIVE parse_link_bracketed(_)

\* inline_step with a fallback that takes the rest of the text, not one char
inline_step_rest(i) ==
    With([r \in {inline_atom(i)} |-> IF r.ok THEN r ELSE
        IF Len(i) > 0 THEN Ok("", Text(i)) ELSE Err(i)])

\* one turn of the loops of parse_inlines and parse_inlines_until: the node
\* inline_atom recognizes, else the next char as a one-character Text
inline_step(i) ==
    With([r \in {inline_atom(i)} |-> IF r.ok THEN r ELSE
    With([c \in {anychar(i)} |-> IF c.ok THEN Ok(c.rest, Text(c.val)) ELSE c])])

parse_inlines_loop(i, acc) ==
    IF Len(i) = 0 THEN Ok("", acc)
    ELSE With([r \in {inline_step(i)} |->
             IF ~r.ok THEN r ELSE parse_inlines_loop(r.rest, Append(acc, r.val))])

parse_inlines(i) == parse_inlines_loop(i, <<>>)

parse_inlines_str(s) ==
    With([r \in {parse_inlines(s)} |->
        IF r.ok /\ r.rest = "" THEN coalesce_text(r.val)
        ELSE IF r.ok THEN coalesce_text(Append(r.val, Text(r.rest)))
        ELSE <<Text(s)>>])

parse_inlines_until(i, stop, acc) ==
    IF Len(i) = 0 THEN Err(i)
    ELSE IF StartsWith(i, stop) THEN Ok(i, acc)
    ELSE With([r \in {inline_step(i)} |->
             IF ~r.ok THEN r ELSE parse_inlines_until(r.rest, stop, Append(acc, r.val))])

parse_emph_with(delim, kind, i) ==
    With([a \in {tag(delim, i)} |-> IF ~a.ok THEN a ELSE
        IF Len(a.rest) > 0 /\ CharAt(a.rest, 1) \in EmphNoOpen THEN Err(a.rest) ELSE
    With([b \in {parse_inlines_until(a.rest, delim, <<>>)} |-> IF ~b.ok THEN b ELSE
    With([c \in {tag(delim, b.rest)} |-> IF ~c.ok THEN c ELSE
        Ok(c.rest, Emphasis(kind, b.val))])])])

parse_link_bracketed(i) ==
    With([a \in {tag("[[", i)} |-> IF ~a.ok THEN a ELSE
    With([t2 \in {take_until("][", a.rest)} |->
        IF t2.ok
        THEN With([d \in {take_until("]]", Drop(t2.rest, 2))} |-> IF ~d.ok THEN d ELSE
                 Ok(Drop(d.rest, 2),
                    Link(link_kind_from_target(Trim(t2.val)),
                         Some(parse_inlines_str(d.val))))])
        ELSE With([t1 \in {take_until("]]", a.rest)} |-> IF ~t1.ok THEN t1 ELSE
                 Ok(Drop(t1.rest, 2),
                    Link(link_kind_from_target(Trim(t1.val)), None))])])])

\* alt((...)): the first recognizer that succeeds, in the order of the source
inline_atom(i) ==
    Alt(parse_link_bracketed(i),
    Alt(parse_target_inline(i),
    Alt(parse_footnote_ref(i),
    Alt(parse_code_like("~", "Code", i),
    Alt(parse_code_like("=", "Verbatim", i),
    Alt(parse_emph_with("*", "Bold", i),
    Alt(parse_emph_with("/", "Italic", i),
    Alt(parse_emph_with("_", "Underline", i),
    Alt(parse_emph_with("+", "Strike", i),
    Alt(parse_autolink(i),
    Alt(parse_entity_inline(i),
        parse_text_chunk(i))))))))))))

rt_text(s) == parse_inlines_str(s)


(***************************************************************************)
(* Timestamps (mod parser)                                                 *)
(***************************************************************************)
RECURSIVE ToNat(_)
\* str::parse::<u32>() of a run of ASCII digits
ToNat(s) ==
    IF Len(s) = 0 THEN 0
    ELSE 10 * ToNat(Take(s, Len(s) - 1)) + Find("0123456789", CharAt(s, Len(s)))

IsLeap(y) == y % 4 = 0 /\ (y % 100 # 0 \/ y % 400 = 0)
DaysInMonth(y, m) ==
    IF m = 2 THEN (IF IsLeap(y) THEN 29 ELSE 28)
    ELSE IF m \in {4, 6, 9, 11} THEN 30 ELSE 31
\* NaiveDate::from_ymd_opt
from_ymd_opt(y, m, d) ==
    IF m >= 1 /\ m <= 12 /\ d >= 1 /\ d <= DaysInMonth(y, m)
    THEN Some([y |-> y, m |-> m, d |-> d]) ELSE None
\* NaiveTime::from_hms_opt(h, m, 0)
from_hms_opt(h, m) ==
    IF h < 24 /\ m < 60 THEN Some([h |-> h, mi |-> m]) ELSE None

take_while_m_n(m, n, set, i) ==
    With([r \in {take_while(set, i)} |->
        IF Len(r.val) < m \/ Len(r.val) > n THEN Err(r.rest) ELSE r])

parse_date(i) ==
    With([y \in {take_while_m_n(4, 4, DigitChars, i)} |-> IF ~y.ok THEN Err(i) ELSE
    With([a \in {tag("-", y.rest)} |-> IF ~a.ok THEN Err(i) ELSE
    With([m \in {take_while_m_n(2, 2, DigitChars, a.rest)} |-> IF ~m.ok THEN Err(i) ELSE
    With([b \in {tag("-", m.rest)} |-> IF ~b.ok THEN Err(i) ELSE
    With([d \in {take_while_m_n(2, 2, DigitChars, b.rest)} |-> IF ~d.ok THEN Err(i) ELSE
    With([date \in {from_ymd_opt(ToNat(y.val), ToNat(m.val), ToNat(d.val))} |->
        IF IsNone(date) THEN Err(i) ELSE Ok(d.rest, Unwrap(date))])])])])])])

parse_time(i) ==
    With([h \in {take_while_m_n(1, 2, DigitChars, i)} |-> IF ~h.ok THEN Err(i) ELSE
    With([a \in {tag(":", h.rest)} |-> IF ~a.ok THEN Err(i) ELSE
    With([m \in {take_while_m_n(2, 2, DigitChars, a.rest)} |-> IF ~m.ok THEN Err(i) ELSE
    With([time \in {from_hms_opt(ToNat(h.val), ToNat(m.val))} |->
        IF IsNone(time) THEN Err(i) ELSE Ok(m.rest, Unwrap(time))])])])])

\* opt(preceded(space1, p)): the result of p after at least one blank, or a
\* miss that leaves the input where it was
opt_after_space(r, i) == IF r.ok THEN r ELSE Err(i)

\* the closing bracket of parse_timestamp and the value it builds
timestamp_close(i, active, date, time_opt) ==
    IF StartsWith(i, ">") \/ StartsWith(i, "]")
    THEN Ok(Drop(i, 1),
            [active |-> active, date |-> date, time |-> time_opt, tz |-> None,
             end |-> None, repeater |-> None, delay |-> None])
    ELSE Err(i)

parse_timestamp(i) ==
    IF ~(StartsWith(i, "<") \/ StartsWith(i, "[")) THEN Err(i) ELSE
    With([date \in {parse_date(Drop(i, 1))} |-> IF ~date.ok THEN date ELSE
    With([sp1 \in {space1(date.rest)} |->
    With([tm \in {IF sp1.ok THEN opt_after_space(parse_time(sp1.rest), date.rest)
                  ELSE Err(date.rest)} |->
    With([sp2 \in {space1(tm.rest)} |->
    With([dw \in {IF sp2.ok THEN opt_after_space(take_while1(AlphaChars, sp2.rest), tm.rest)
                  ELSE Err(tm.rest)} |->
        timestamp_close(dw.rest, StartsWith(i, "<"), date.val,
                        IF tm.ok THEN Some(tm.val) ELSE None)])])])])])

(***************************************************************************)
(* Planning & drawers (mod parser)                                         *)
(***************************************************************************)
till_eol(i) ==
    With([r \in {not_line_ending(i)} |->
        IF ~r.ok THEN r ELSE Ok(opt_line_ending(r.rest), r.val)])

Planning0 == [scheduled |-> None, deadline |-> None, closed |-> None]

preceded_ws(prefix, i) ==
    With([a \in {tag(prefix, space0(i).rest)} |->
        IF ~a.ok THEN a ELSE parse_timestamp(space0(a.rest).rest)])

RECURSIVE planning_fields(_, _, _)
\* the while loop of parse_planning_line over the line's text; val is
\* <<planning, matched>>
planning_fields(rest, p, matched) ==
    IF Trim(rest) = "" THEN Ok(rest, <<p, matched>>) ELSE
    With([s \in {preceded_ws("SCHEDULED:", rest)} |->
        IF s.ok THEN planning_fields(s.rest, [p EXCEPT !.scheduled = Some(s.val)], TRUE) ELSE
    With([d \in {preceded_ws("DEADLINE:", rest)} |->
        IF d.ok THEN planning_fields(d.rest, [p EXCEPT !.deadline = Some(d.val)], TRUE) ELSE
    With([c \in {preceded_ws("CLOSED:", rest)} |->
        IF c.ok THEN planning_fields(c.rest, [p EXCEPT !.closed = Some(c.val)], TRUE)
        ELSE Err(rest)])])])

\* newline_len of parse_planning_line
newline_len_of(consumed, line_len) ==
    IF consumed >= line_len THEN consumed - line_len ELSE 0

\* val is <<planning, line_len, newline_len>>
parse_planning_line(i) ==
    With([l \in {till_eol(i)} |-> IF ~l.ok THEN l ELSE
    With([f \in {planning_fields(l.val, Planning0, FALSE)} |->
        IF ~f.ok \/ ~f.val[2] THEN Err(i)
        ELSE Ok(l.rest, <<f.val[1], Len(l.val),
                          newline_len_of(Len(i) - Len(l.rest), Len(l.val))>>)])])

\* IndexMap::insert: a new key goes last, an old key keeps its place
RECURSIVE map_insert(_, _, _)
map_insert(m, k, v) ==
    IF Len(m) = 0 THEN <<<<k, v>>>>
    ELSE IF m[1][1] = k THEN <<<<k, v>>>> \o Tail(m)
    ELSE <<m[1]>> \o map_insert(Tail(m), k, v)

PropKeyChars == UpperChars \cup {"_", "-"}

\* val is <<key, value>>
parse_property_line(i) ==
    With([a \in {tag(":", space0(i).rest)} |-> IF ~a.ok THEN a ELSE
    With([k \in {take_while1(PropKeyChars, a.rest)} |-> IF ~k.ok THEN k ELSE
    With([b \in {tag(":", k.rest)} |-> IF ~b.ok THEN b ELSE
    With([v \in {not_line_ending(space0(b.rest).rest)} |-> IF ~v.ok THEN v ELSE
        Ok(opt_line_ending(v.rest), <<k.val, v.val>>)])])])])

\* terminated(tag(":END:"), opt(line_ending))
drawer_end(i) ==
    With([e \in {tag(":END:", i)} |->
        IF ~e.ok THEN e ELSE Ok(opt_line_ending(e.rest), "")])

\* terminated(tag(name), line_ending)
drawer_open(name, i) ==
    With([a \in {tag(name, i)} |-> IF ~a.ok THEN a ELSE line_ending(a.rest)])

RECURSIVE properties_loop(_, _)
properties_loop(rest, props) ==
    With([e \in {drawer_end(rest)} |->
        IF e.ok THEN Ok(e.rest, [props |-> props]) ELSE
    With([l \in {parse_property_line(rest)} |->
        IF ~l.ok THEN l
        ELSE properties_loop(l.rest, map_insert(props, l.val[1], l.val[2]))])])

parse_properties_drawer(i) ==
    With([a \in {drawer_open(":PROPERTIES:", i)} |->
        IF ~a.ok THEN a ELSE properties_loop(a.rest, <<>>)])

parse_clock_minutes(i) ==
    With([a \in {tag("=>", space0(i).rest)} |-> IF ~a.ok THEN a ELSE
    With([h \in {digit1(space0(a.rest).rest)} |-> IF ~h.ok THEN h ELSE
    With([c \in {tag(":", h.rest)} |-> IF ~c.ok THEN c ELSE
    With([m \in {digit1(c.rest)} |-> IF ~m.ok THEN m ELSE
        Ok(m.rest, ToNat(h.val) * 60 + ToNat(m.val))])])])])

\* opt(p): the result of p, or a miss that leaves the input where it was
opt_at(r, i) == IF r.ok THEN r ELSE Err(i)

parse_clock_line(i) ==
    With([a \in {tag("CLOCK:", space0(i).rest)} |-> IF ~a.ok THEN a ELSE
    With([b \in {space1(a.rest)} |-> IF ~b.ok THEN b ELSE
    With([start \in {parse_timestamp(b.rest)} |-> IF ~start.ok THEN start ELSE
    With([c \in {tag("--", space0(start.rest).rest)} |-> IF ~c.ok THEN c ELSE
    With([e \in {opt_at(parse_timestamp(space0(c.rest).rest), space0(c.rest).rest)} |->
    With([mn \in {opt_at(parse_clock_minutes(e.rest), e.rest)} |->
        Ok(opt_line_ending(mn.rest),
           [start |-> start.val,
            end |-> IF e.ok THEN Some(e.val) ELSE None,
            minutes |-> IF mn.ok THEN Some(mn.val) ELSE None,
            raw |-> None])])])])])])])

RECURSIVE logbook_loop(_, _, _)
\* the loop of parse_logbook_drawer; val is <<clocks, raw>>.  At the end of
\* the input till_eol succeeds on "" without consuming anything, so the loop
\* pushes "" onto raw and meets the same empty rest again, forever.
logbook_loop(rest, clocks, raw) ==
    With([e \in {drawer_end(rest)} |->
        IF e.ok THEN Ok(e.rest, <<clocks, raw>>) ELSE
    With([ce \in {parse_clock_line(rest)} |->
        IF ce.ok THEN logbook_loop(ce.rest, Append(clocks, ce.val), raw) ELSE
    With([l \in {till_eol(rest)} |->
        IF ~l.ok THEN l
        ELSE IF l.rest = rest THEN Diverge(rest)
        ELSE logbook_loop(l.rest, clocks, Append(raw, l.val))])])])

parse_logbook_drawer(i) ==
    With([a \in {drawer_open(":LOGBOOK:", i)} |->
        IF ~a.ok THEN a ELSE logbook_loop(a.rest, <<>>, <<>>)])

Paragraph(inlines) == [t |-> "Paragraph", inlines |-> inlines]

\* the flush of parse_blocks_from_lines
flush_lines(para, blocks) ==
    IF Len(para) = 0 THEN blocks
    ELSE Append(blocks, Paragraph(parse_inlines_str(Join(para, "\n"))))

RECURSIVE blocks_from_lines(_, _, _)
\* parse_blocks_from_lines: `para` is the paragraph being collected
blocks_from_lines(lines, para, blocks) ==
    IF Len(lines) = 0 THEN flush_lines(para, blocks)
    ELSE IF Trim(lines[1]) = ""
    THEN blocks_from_lines(Tail(lines), <<>>, flush_lines(para, blocks))
    ELSE blocks_from_lines(Tail(lines), Append(para, lines[1]), blocks)

parse_blocks_from_lines(lines) == blocks_from_lines(lines, <<>>, <<>>)

RECURSIVE generic_drawer_loop(_, _, _)
\* the loop of parse_generic_drawer; like logbook_loop it stops advancing at
\* the end of the input
generic_drawer_loop(rest, name, content_lines) ==
    With([e \in {drawer_end(rest)} |->
        IF e.ok
        THEN Ok(e.rest, [name |-> name, content |-> parse_blocks_from_lines(content_lines)])
        ELSE
    With([l \in {till_eol(rest)} |->
        IF ~l.ok THEN l
        ELSE IF l.rest = rest THEN Diverge(rest)
        ELSE generic_drawer_loop(l.rest, name, Append(content_lines, l.val))])])

ReservedDrawers == {"PROPERTIES", "LOGBOOK"}

parse_generic_drawer(i) ==
    With([a \in {tag(":", i)} |-> IF ~a.ok THEN a ELSE
    With([n \in {take_while1(UpperChars, a.rest)} |-> IF ~n.ok THEN n ELSE
    With([b \in {tag(":", n.rest)} |-> IF ~b.ok THEN b ELSE
    With([c \in {line_ending(b.rest)} |-> IF ~c.ok THEN c ELSE
        IF n.val \in ReservedDrawers THEN Err(c.rest)
        ELSE generic_drawer_loop(c.rest, n.val, <<>>)])])])])

(***************************************************************************)
(* Blocks and lists (mod parser)                                           *)
(***************************************************************************)
parse_hr(i) ==
    With([d \in {take_while1({"-"}, space0(i).rest)} |->
        IF ~d.ok THEN d ELSE line_ending(space0(d.rest).rest)])

CheckboxChars == {" ", "-", "X", "x"}

parse_checkbox(i) ==
    With([a \in {tag("[", i)} |-> IF ~a.ok THEN a ELSE
    With([c \in {anychar(a.rest)} |->
        IF ~c.ok \/ c.val \notin CheckboxChars THEN Err(a.rest) ELSE
    With([b \in {tag("]", c.rest)} |-> IF ~b.ok THEN b ELSE
    With([sp \in {space1(b.rest)} |-> IF ~sp.ok THEN sp ELSE
        Ok(sp.rest, IF c.val = " " THEN "Empty"
                    ELSE IF c.val = "-" THEN "Partial" ELSE "Checked")])])])])

\* the bullet alternative of parse_list_item on the unindented line; val is
\* the list kind
list_marker(a) ==
    IF StartsWith(a, "-") \/ StartsWith(a, "+")
    THEN With([sp \in {space1(Drop(a, 1))} |->
             IF sp.ok THEN Ok(sp.rest, "Unordered") ELSE sp])
    ELSE With([num \in {digit1(a)} |->
             IF num.ok /\ (StartsWith(num.rest, ".") \/ StartsWith(num.rest, ")"))
             THEN With([sp \in {space1(Drop(num.rest, 1))} |->
                      IF sp.ok THEN Ok(sp.rest, "Ordered") ELSE sp])
             ELSE Err(a)])

\* val is <<kind, item>>
parse_list_item(i) ==
    With([mk \in {list_marker(space0(i).rest)} |-> IF ~mk.ok THEN Err(i) ELSE
    With([cb \in {opt_at(parse_checkbox(mk.rest), mk.rest)} |->
    With([l \in {till_eol(cb.rest)} |-> IF ~l.ok THEN l ELSE
        Ok(l.rest,
           <<mk.val,
             [label |-> None,
              content |-> <<Paragraph(parse_inlines_str(TrimEnd(l.val)))>>,
              checkbox |-> IF cb.ok THEN Some(cb.val) ELSE None,
              counter |-> None,
              tags |-> {}]>>)])])])

RECURSIVE list_loop(_, _, _)
list_loop(i, kind, items) ==
    With([n \in {parse_list_item(i)} |->
        IF n.ok /\ n.val[1] = kind THEN list_loop(n.rest, kind, Append(items, n.val[2]))
        ELSE Ok(i, [kind |-> kind, items |-> items])])

parse_list(i) ==
    With([f \in {parse_list_item(i)} |->
        IF ~f.ok THEN f ELSE list_loop(f.rest, f.val[1], <<f.val[2]>>)])

(***************************************************************************)
(* Utils and headline (mod parser)                                         *)
(***************************************************************************)
\* the width of Heading::level (u8)
LevelModulus == 256

\* range_from with the two remaining inputs exchanged
range_from_swapped(base_len, before, after) ==
    [start |-> base_len - Len(after), end |-> base_len - Len(before)]

range_from(base_len, before, after) ==
    [start |-> base_len - Len(before), end |-> base_len - Len(after)]

count_stars(s) == SpanFrom(s, 1, {"*"})

is_heading_line(s) == count_stars(s) >= 1 /\ CharAt(s, count_stars(s) + 1) = " "

TagChars == AlnumChars \cup {"_", "-", "@", "+"}

\* the tags among the parts of a `:a:b:` run: the non-empty parts made of
\* tag chars only
tags_of_parts(parts) ==
    {parts[k] : k \in {j \in 1..Len(parts) : parts[j] # "" /\ AllIn(parts[j], TagChars)}}

colon_tags(s) == tags_of_parts(Split(s, ":"))

from_source(block, source) == [block |-> block, source |-> Some(source)]
BlockWithSource_new(block) == [block |-> block, source |-> None]

Heading_new(level, title) ==
    [level |-> level, title |-> title, todo |-> None, priority |-> None, tags |-> {},
     planning |-> Planning0, properties |-> [props |-> <<>>],
     logbook |-> [clock |-> <<>>, state_changes |-> <<>>, raw |-> <<>>],
     section |-> <<>>, children |-> <<>>, canonical_id |-> None,
     headline_range |-> None, planning_range |-> None,
     properties_range |-> None, logbook_range |-> None]

\* opt(terminated(take_while1(uppercase), space1)): val is the keyword
headline_todo(i) ==
    With([kw \in {take_while1(UpperChars, i)} |-> IF ~kw.ok THEN Err(i) ELSE
    With([sp \in {space1(kw.rest)} |->
        IF sp.ok THEN Ok(sp.rest, kw.val) ELSE Err(i)])])

\* opt(delimited("[#", anychar, "]")) followed by space0: val is the cookie
headline_priority(i) ==
    IF StartsWith(i, "[#") /\ Len(i) >= 4 /\ CharAt(i, 4) = "]"
    THEN Ok(space0(Drop(i, 4)).rest, CharAt(i, 3))
    ELSE Err(i)

\* the split of the title text at its last " :"; val is <<title, tags>>
headline_tags(title_text, pos) ==
    IF pos >= 0 /\ StartsWith(Drop(title_text, pos + 1), ":")
                /\ EndsWith(Drop(title_text, pos + 1), ":")
    THEN <<TrimEnd(Take(title_text, pos)),
           colon_tags(TrimEndMatches(Trim(Drop(title_text, pos + 1)), ":"))>>
    ELSE <<title_text, {}>>

parse_headline(i, base_len) ==
    IF count_stars(i) = 0 THEN Err(i) ELSE
    With([sp \in {space1(Drop(i, count_stars(i)))} |-> IF ~sp.ok THEN sp ELSE
    With([kw \in {headline_todo(sp.rest)} |->
    With([pr \in {headline_priority(kw.rest)} |->
    With([tl \in {SpanNotFrom(pr.rest, 1, {"\n"})} |->
    With([title_text \in {TrimEnd(Take(pr.rest, tl))} |->
    With([tt \in {headline_tags(title_text, RFind(title_text, " :"))} |->
    With([i3 \in {opt_line_ending(Drop(pr.rest, tl))} |->
        Ok(i3, [Heading_new(count_stars(i) % LevelModulus, parse_inlines_str(tt[1]))
                  EXCEPT !.todo = IF kw.ok THEN Some([text |-> kw.val, is_done |-> FALSE])
                                  ELSE None,
                         !.priority = IF pr.ok THEN Some(pr.val) ELSE None,
                         !.tags = tt[2],
                         !.headline_range = Some(range_from(base_len, i, i3))])
    ])])])])])])])

(***************************************************************************)
(* Preamble (mod parser)                                                   *)
(***************************************************************************)
KeyChars == AlnumChars \cup {"_"}

\* val is <<key, value>>
parse_hash_key_value(i) ==
    With([a \in {tag("#+", i)} |-> IF ~a.ok THEN a ELSE
    With([k \in {take_while1(KeyChars, a.rest)} |-> IF ~k.ok THEN k ELSE
    With([b \in {tag(":", k.rest)} |-> IF ~b.ok THEN b ELSE
    With([v \in {not_line_ending(space0(b.rest).rest)} |-> IF ~v.ok THEN v ELSE
        Ok(opt_line_ending(v.rest), <<k.val, v.val>>)])])])])

\* u8::to_ascii_lowercase on one char
lower_char(c) ==
    IF Find("ABCDEFGHIJKLMNOPQRSTUVWXYZ", c) >= 0
    THEN CharAt("abcdefghijklmnopqrstuvwxyz", Find("ABCDEFGHIJKLMNOPQRSTUVWXYZ", c) + 1)
    ELSE c

RECURSIVE to_ascii_lowercase(_)
to_ascii_lowercase(s) ==
    IF Len(s) = 0 THEN ""
    ELSE lower_char(CharAt(s, 1)) \o to_ascii_lowercase(Drop(s, 1))

RECURSIVE split_whitespace(_)
split_whitespace(s) ==
    IF TrimStart(s) = "" THEN <<>>
    ELSE With([t \in {TrimStart(s)} |->
         With([n \in {SpanNotFrom(t, 1, WhiteChars)} |->
             <<Take(t, n)>> \o split_whitespace(Drop(t, n))])])

FileSettings_default ==
    [todo_sequences |-> <<>>, priorities |-> <<"A", "B", "C">>, default_tz |-> None,
     meta |-> <<>>]

\* the state of the loop of parse_preamble
Preamble0 ==
    [settings |-> FileSettings_default, title |-> None, file_tags |-> {},
     blocks |-> <<>>, para_lines |-> <<>>, para_start |-> None]

\* the nested flush_paragraph of parse_preamble
flush_paragraph(st, current_rest, base_len) ==
    IF IsSome(st.para_start)
    THEN [st EXCEPT
            !.blocks = Append(@, from_source(Paragraph(rt_text(Join(st.para_lines, "\n"))),
                                  range_from(base_len, Unwrap(st.para_start), current_rest))),
            !.para_lines = <<>>,
            !.para_start = None]
    ELSE st

\* the match on the directive's lower-cased key
apply_directive(st, lk, val) ==
    IF lk = "title" THEN [st EXCEPT !.title = Some(Trim(val))]
    ELSE IF lk = "filetags" THEN [st EXCEPT !.file_tags = @ \cup colon_tags(val)]
    ELSE IF lk \in {"todo", "todo_keywords"}
    THEN (IF Trim(val) # ""
          THEN [st EXCEPT !.settings.todo_sequences = Append(@, split_whitespace(val))]
          ELSE st)
    ELSE [st EXCEPT !.settings.meta = map_insert(@, lk, val)]

\* blocks.push(..)
push_preamble_block(st, b) == [st EXCEPT !.blocks = Append(@, b)]

RECURSIVE preamble_loop(_, _, _)
preamble_loop(i, st, base_len) ==
    IF i = "" \/ is_heading_line(i) THEN Ok(i, flush_paragraph(st, i, base_len)) ELSE
    With([kv \in {parse_hash_key_value(i)} |->
        IF kv.ok
        THEN preamble_loop(kv.rest,
                 push_preamble_block(
                     apply_directive(flush_paragraph(st, i, base_len),
                                     to_ascii_lowercase(kv.val[1]), kv.val[2]),
                     from_source([t |-> "Directive", key |-> kv.val[1],
                                  value |-> Trim(kv.val[2])],
                                 range_from(base_len, i, kv.rest))),
                 base_len)
        ELSE
    With([l \in {till_eol(i)} |->
        IF ~l.ok THEN l
        ELSE IF Trim(l.val) = ""
        THEN preamble_loop(l.rest,
                 push_preamble_block(
                     flush_paragraph(st, l.rest, base_len),
                     from_source(Paragraph(<<>>), range_from(base_len, i, l.rest))),
                 base_len)
        ELSE preamble_loop(l.rest,
                 [st EXCEPT !.para_start = IF IsNone(@) THEN Some(i) ELSE @,
                            !.para_lines = Append(@, l.val)],
                 base_len)])])

parse_preamble(i, base_len) == preamble_loop(i, Preamble0, base_len)

(***************************************************************************)
(* Headings section (mod parser)                                           *)
(***************************************************************************)
\* the locals of a heading's body loop: the rest of the input, the node
\* under construction and the open paragraph
Body(i, node) == [i |-> i, node |-> node, para_lines |-> <<>>, para_start |-> None]

flush_section_paragraph(b, current_rest, base_len) ==
    IF IsSome(b.para_start)
    THEN [b EXCEPT
            !.node.section = Append(@,
                from_source(Paragraph(rt_text(Join(b.para_lines, "\n"))),
                            range_from(base_len, Unwrap(b.para_start), current_rest))),
            !.para_lines = <<>>,
            !.para_start = None]
    ELSE b

\* a merge in which a field once set is kept
merge_planning_first(node, p, range) ==
    [node EXCEPT
       !.planning.scheduled = IF IsSome(@) THEN @ ELSE p.scheduled,
       !.planning.deadline = IF IsSome(@) THEN @ ELSE p.deadline,
       !.planning.closed = IF IsSome(@) THEN @ ELSE p.closed,
       !.planning_range = IF IsSome(@)
                          THEN Some([start |-> Unwrap(@).start, end |-> range.end])
                          ELSE Some(range)]

\* the merge of one planning line into the node
merge_planning(node, p, range) ==
    [node EXCEPT
       !.planning.scheduled = IF IsSome(p.scheduled) THEN p.scheduled ELSE @,
       !.planning.deadline = IF IsSome(p.deadline) THEN p.deadline ELSE @,
       !.planning.closed = IF IsSome(p.closed) THEN p.closed ELSE @,
       !.planning_range = IF IsSome(@)
                          THEN Some([start |-> Unwrap(@).start, end |-> range.end])
                          ELSE Some(range)]

\* the planning arm of the body loop; pl is <<planning, line_len, newline_len>>
planning_arm(b, r2, pl, base_len) ==
    [flush_section_paragraph(b, b.i, base_len) EXCEPT
       !.i = r2,
       !.node = merge_planning(@, pl[1],
                    [start |-> base_len - Len(b.i),
                     end |-> (base_len - Len(b.i)) + pl[2] + pl[3]])]

properties_arm(b, r2, pd, base_len) ==
    [flush_section_paragraph(b, b.i, base_len) EXCEPT
       !.i = r2,
       !.node.properties = pd,
       !.node.properties_range = Some(range_from(base_len, b.i, r2))]

\* lb is <<clock, rest_raw>>
logbook_arm(b, r2, lb, base_len) ==
    [flush_section_paragraph(b, b.i, base_len) EXCEPT
       !.i = r2,
       !.node.logbook.clock = lb[1],
       !.node.logbook.raw = lb[2],
       !.node.logbook_range = Some(range_from(base_len, b.i, r2))]

\* the arms that push a block parsed from b.i up to r2
push_block(b, r2, block, base_len) ==
    [flush_section_paragraph(b, b.i, base_len) EXCEPT
       !.i = r2,
       !.node.section = Append(@, from_source(block, range_from(base_len, b.i, r2)))]

\* the paragraph-line tail of the body loop
body_paragraph_line(b, base_len) ==
    With([l \in {till_eol(b.i)} |->
        IF ~l.ok THEN l
        ELSE IF Trim(l.val) = ""
        THEN Ok("", push_block(b, l.rest, Paragraph(<<>>), base_len))
        ELSE Ok("", [b EXCEPT !.i = l.rest,
                              !.para_start = IF IsNone(@) THEN Some(b.i) ELSE @,
                              !.para_lines = Append(@, l.val)])])

\* one turn of the body loop on a line that is not a heading line: planning,
\* PROPERTIES, LOGBOOK, generic drawer, rule, list, paragraph line
body_element(b, base_len) ==
    With([pl \in {parse_planning_line(b.i)} |->
        IF pl.ok THEN Ok("", planning_arm(b, pl.rest, pl.val, base_len)) ELSE
    With([pd \in {parse_properties_drawer(b.i)} |->
        IF pd.ok THEN Ok("", properties_arm(b, pd.rest, pd.val, base_len)) ELSE
    With([lb \in {parse_logbook_drawer(b.i)} |->
        IF lb.div THEN lb ELSE
        IF lb.ok THEN Ok("", logbook_arm(b, lb.rest, lb.val, base_len)) ELSE
    With([gd \in {parse_generic_drawer(b.i)} |->
        IF gd.div THEN gd ELSE
        IF gd.ok
        THEN Ok("", push_block(b, gd.rest, [t |-> "Drawer", drawer |-> gd.val], base_len))
        ELSE
    With([hr \in {parse_hr(b.i)} |->
        IF hr.ok THEN Ok("", push_block(b, hr.rest, [t |-> "HorizontalRule"], base_len))
        ELSE
    With([ls \in {parse_list(b.i)} |->
        IF ls.ok
        THEN Ok("", push_block(b, ls.rest, [t |-> "List", list |-> ls.val], base_len))
        ELSE body_paragraph_line(b, base_len)])])])])])])

\* node.children.extend(kids) and i = r2
extend_children(b, r2, kids) == [b EXCEPT !.i = r2, !.node.children = @ \o kids]

RECURSIVE parse_headings_at_level(_, _, _)
RECURSIVE at_level_body(_, _, _)
RECURSIVE at_level_loop(_, _, _, _)

\* the body loop of parse_headings_at_level; val is the Body at the break.
\* The open paragraph is not flushed when a child heading begins.
at_level_body(b, level, base_len) ==
    IF b.i = "" THEN Ok("", b)
    ELSE IF is_heading_line(b.i)
    THEN (IF count_stars(b.i) % LevelModulus > level
          THEN With([k \in {parse_headings_at_level(b.i, count_stars(b.i) % LevelModulus,
                                                    base_len)} |->
                   IF ~k.ok THEN k
                   ELSE at_level_body(extend_children(b, k.rest, k.val), level, base_len)])
          ELSE Ok("", b))
    ELSE With([e \in {body_element(b, base_len)} |->
             IF ~e.ok THEN e ELSE at_level_body(e.val, level, base_len)])

at_level_loop(i, level, base_len, out) ==
    IF i = "" \/ ~is_heading_line(i) \/ count_stars(i) % LevelModulus # level
    THEN Ok(i, out) ELSE
    With([h \in {parse_headline(i, base_len)} |-> IF ~h.ok THEN h ELSE
    With([b \in {at_level_body(Body(h.rest, h.val), level, base_len)} |->
        IF ~b.ok THEN b ELSE
    With([f \in {flush_section_paragraph(b.val, b.val.i, base_len)} |->
        at_level_loop(f.i, level, base_len, Append(out, f.node))])])])

parse_headings_at_level(i, level, base_len) == at_level_loop(i, level, base_len, <<>>)

\* the body loop of parse_headings_tree; val is the Body at the break.  The
\* open paragraph is flushed before a heading line is looked at.
RECURSIVE tree_body(_, _, _)
\* tree_body with a break at every heading line: a deeper heading is left to
\* the outer loop
tree_body_flat(b, level, base_len) ==
    IF b.i = "" THEN Ok("", b)
    ELSE IF is_heading_line(b.i)
    THEN Ok("", flush_section_paragraph(b, b.i, base_len))
    ELSE With([e \in {body_element(b, base_len)} |->
             IF ~e.ok THEN e ELSE tree_body(e.val, level, base_len)])

tree_body(b, level, base_len) ==
    IF b.i = "" THEN Ok("", b)
    ELSE IF is_heading_line(b.i)
    THEN (IF count_stars(b.i) % LevelModulus > level
          THEN With([k \in {parse_headings_at_level(b.i, count_stars(b.i) % LevelModulus,
                                                    base_len)} |->
                   IF ~k.ok THEN k
                   ELSE tree_body(extend_children(
                                      flush_section_paragraph(b, b.i, base_len),
                                      k.rest, k.val),
                                  level, base_len)])
          ELSE Ok("", flush_section_paragraph(b, b.i, base_len)))
    ELSE With([e \in {body_element(b, base_len)} |->
             IF ~e.ok THEN e ELSE tree_body(e.val, level, base_len)])

\* a completed heading goes under the new top of the stack, or to the roots
\* when the stack is empty; the value is <<stack, roots>>
attach(stack, roots, completed) ==
    IF Len(stack) > 0
    THEN <<[stack EXCEPT ![Len(stack)].children = Append(@, completed)], roots>>
    ELSE <<stack, Append(roots, completed)>>

\* stack.pop() followed by the attachment of the popped heading
pop_attach(stack, roots) ==
    attach(SubSeq(stack, 1, Len(stack) - 1), roots, stack[Len(stack)])

RECURSIVE place(_, _, _)
\* place with `top.level <= level` for its break: a heading of the same
\* level is kept on the stack
place_le(stack, roots, level) ==
    IF Len(stack) = 0 \/ stack[Len(stack)].level <= level THEN <<stack, roots>>
    ELSE With([a \in {pop_attach(stack, roots)} |-> place(a[1], a[2], level)])

\* pop every heading of the stack whose level is not below `level`
place(stack, roots, level) ==
    IF Len(stack) = 0 \/ stack[Len(stack)].level < level THEN <<stack, roots>>
    ELSE With([a \in {pop_attach(stack, roots)} |-> place(a[1], a[2], level)])

RECURSIVE drain(_, _)
drain(stack, roots) ==
    IF Len(stack) = 0 THEN roots
    ELSE With([a \in {pop_attach(stack, roots)} |-> drain(a[1], a[2])])

\* the stray-line branch of parse_headings_tree: the line goes to the last
\* heading of the stack as a paragraph unless it is blank
stray_line(stack, i, l, base_len) ==
    IF Len(stack) > 0 /\ Trim(l.val) # ""
    THEN [stack EXCEPT ![Len(stack)].section =
              Append(@, from_source(Paragraph(rt_text(l.val)),
                                    range_from(base_len, i, l.rest)))]
    ELSE stack

\* one turn of the outer loop of parse_headings_tree on a non-empty input:
\* the value is <<stack, roots>> after the turn
tree_step(i, stack, roots, base_len) ==
    IF ~is_heading_line(i)
    THEN With([l \in {till_eol(i)} |-> IF ~l.ok THEN l ELSE
             Ok(l.rest, <<stray_line(stack, i, l, base_len), roots>>)])
    ELSE
    With([h \in {parse_headline(i, base_len)} |-> IF ~h.ok THEN h ELSE
    With([b \in {tree_body(Body(h.rest, h.val), h.val.level, base_len)} |->
        IF ~b.ok THEN b ELSE
    With([f \in {flush_section_paragraph(b.val, b.val.i, base_len)} |->
    With([p \in {place(stack, roots, h.val.level)} |->
        Ok(f.i, <<Append(p[1], f.node), p[2]>>)])])])])

RECURSIVE tree_loop(_, _, _, _)
tree_loop(i, stack, roots, base_len) ==
    IF i = "" THEN Ok(i, drain(stack, roots))
    ELSE With([s \in {tree_step(i, stack, roots, base_len)} |->
             IF ~s.ok THEN s ELSE tree_loop(s.rest, s.val[1], s.val[2], base_len)])

parse_headings_tree(i, base_len) == tree_loop(i, <<>>, <<>>, base_len)

(***************************************************************************)
(* parse_org_from_str and its error report                                 *)
(***************************************************************************)
\* first_line_of without the cut at the newline
whole_fragment(frag) == frag

\* frag.get(0..frag.find('\n').unwrap_or(frag.len()))
first_line_of(frag) == Take(frag, IF Find(frag, "\n") >= 0 THEN Find(frag, "\n") ELSE Len(frag))

\* pretty_verbose_error: the stage label and the fragment of the error cut
\* at its first newline
pretty_verbose_error(label, frag) == [label |-> label, show |-> first_line_of(frag)]

\* map_err(to_anyhow(label)) on a failed stage
to_anyhow(label, r) ==
    [ok |-> FALSE, div |-> r.div, rest |-> r.rest,
     val |-> pretty_verbose_error(label, r.rest)]

OrgFile_new(path) ==
    [path |-> path, title |-> None, file_tags |-> {}, settings |-> FileSettings_default,
     preamble |-> <<>>, headings |-> <<>>, source_text |-> None]

\* the file after stage 1
file_of_preamble(path, text, p) ==
    [OrgFile_new(path) EXCEPT !.source_text = Some(text),
                              !.title = p.title,
                              !.file_tags = p.file_tags,
                              !.settings = p.settings,
                              !.preamble = p.blocks]

\* val is the OrgFile on success and the error on failure; a result with
\* div set stands for a call that never returns
parse_org_from_str(path, text) ==
    With([p \in {parse_preamble(text, Len(text))} |->
        IF ~p.ok THEN to_anyhow("preamble", p) ELSE
    With([h \in {parse_headings_tree(p.rest, Len(text))} |->
        IF ~h.ok THEN to_anyhow("headings", h)
        ELSE Ok(h.rest, [file_of_preamble(path, text, p.val) EXCEPT !.headings = h.val])])])

(***************************************************************************)
(* mod format                                                              *)
(***************************************************************************)
\* SourceRange::slice
slice(range, source) == SubSeq(source, range.start + 1, range.end)

\* Display of an unsigned integer
RECURSIVE NatToStr(_)
NatToStr(n) ==
    IF n < 10 THEN CharAt("0123456789", n + 1)
    ELSE NatToStr(n \div 10) \o CharAt("0123456789", (n % 10) + 1)

\* {:0w} of an unsigned integer
Pad(n, w) ==
    Repeat("0", IF Len(NatToStr(n)) < w THEN w - Len(NatToStr(n)) ELSE 0) \o NatToStr(n)

\* the byte order of the chars a tag is made of (is_tag_char), for the
\* iteration order of BTreeSet<Tag>
AsciiOrder == "+-0123456789@ABCDEFGHIJKLMNOPQRSTUVWXYZ_abcdefghijklmnopqrstuvwxyz"

RECURSIVE StrLess(_, _)
StrLess(a, b) ==
    IF Len(b) = 0 THEN FALSE
    ELSE IF Len(a) = 0 THEN TRUE
    ELSE IF Find(AsciiOrder, CharAt(a, 1)) # Find(AsciiOrder, CharAt(b, 1))
    THEN Find(AsciiOrder, CharAt(a, 1)) < Find(AsciiOrder, CharAt(b, 1))
    ELSE StrLess(Drop(a, 1), Drop(b, 1))

RECURSIVE SortedTags(_)
SortedTags(tags) ==
    IF tags = {} THEN <<>>
    ELSE With([m \in {CHOOSE t \in tags : \A u \in tags \ {t} : StrLess(t, u)} |->
             <<m>> \o SortedTags(tags \ {m})])

render_link_target(kind) ==
    IF kind.k = "File"
    THEN (IF IsSome(kind.search) THEN "file:" \o kind.path \o "::" \o Unwrap(kind.search)
          ELSE "file:" \o kind.path)
    ELSE IF kind.k = "Http" THEN kind.url
    ELSE IF kind.k = "Id" THEN "id:" \o kind.id
    ELSE kind.protocol \o ":" \o kind.target

EmphasisMarker(kind) ==
    IF kind = "Bold" THEN "*" ELSE IF kind = "Italic" THEN "/"
    ELSE IF kind = "Underline" THEN "_" ELSE IF kind = "Strike" THEN "+" ELSE "="

RECURSIVE render_rich_text(_)
RECURSIVE render_inline(_)

\* the match of render_rich_text on one inline
render_inline(x) ==
    IF x.t = "Text" THEN x.s
    ELSE IF x.t = "Emphasis"
    THEN EmphasisMarker(x.kind) \o render_rich_text(x.children) \o EmphasisMarker(x.kind)
    ELSE IF x.t = "Code" THEN "~" \o x.s \o "~"
    ELSE IF x.t = "Verbatim" THEN "=" \o x.s \o "="
    ELSE IF x.t = "Link"
    THEN "[[" \o render_link_target(x.kind)
         \o (IF IsSome(x.desc) THEN "][" \o render_rich_text(Unwrap(x.desc)) ELSE "")
         \o "]]"
    ELSE IF x.t = "Target" THEN "<<" \o x.s \o ">>"
    ELSE IF x.t = "FootnoteRef" THEN "[fn:" \o x.s \o "]"
    ELSE x.s

render_rich_text(inlines) ==
    IF Len(inlines) = 0 THEN ""
    ELSE render_inline(inlines[1]) \o render_rich_text(Tail(inlines))

\* a render_timestamp that writes angle brackets whatever the active flag
render_timestamp_angle(ts) ==
    "<" \o Pad(ts.date.y, 4) \o "-" \o Pad(ts.date.m, 2) \o "-" \o Pad(ts.date.d, 2)
    \o (IF IsSome(ts.time)
        THEN " " \o Pad(Unwrap(ts.time).h, 2) \o ":" \o Pad(Unwrap(ts.time).mi, 2)
        ELSE "")
    \o ">"

render_timestamp(ts) ==
    (IF ts.active THEN "<" ELSE "[")
    \o Pad(ts.date.y, 4) \o "-" \o Pad(ts.date.m, 2) \o "-" \o Pad(ts.date.d, 2)
    \o (IF IsSome(ts.time)
        THEN " " \o Pad(Unwrap(ts.time).h, 2) \o ":" \o Pad(Unwrap(ts.time).mi, 2)
        ELSE "")
    \o (IF ts.active THEN ">" ELSE "]")

render_planning(plan) ==
    Join((IF IsSome(plan.scheduled)
          THEN <<"SCHEDULED: " \o render_timestamp(Unwrap(plan.scheduled))>> ELSE <<>>)
         \o (IF IsSome(plan.deadline)
             THEN <<"DEADLINE: " \o render_timestamp(Unwrap(plan.deadline))>> ELSE <<>>)
         \o (IF IsSome(plan.closed)
             THEN <<"CLOSED: " \o render_timestamp(Unwrap(plan.closed))>> ELSE <<>>),
         " ") \o "\n"

RECURSIVE render_props(_)
render_props(props) ==
    IF Len(props) = 0 THEN ""
    ELSE ":" \o props[1][1] \o ": " \o props[1][2] \o "\n" \o render_props(Tail(props))

render_properties(pd) == ":PROPERTIES:\n" \o render_props(pd.props) \o ":END:\n"

\* one CLOCK line of render_logbook
render_clock(c) ==
    "CLOCK: " \o render_timestamp(c.start)
    \o (IF IsSome(c.end) THEN "--" \o render_timestamp(Unwrap(c.end)) ELSE "")
    \o (IF IsSome(c.minutes)
        THEN " => " \o NatToStr(Unwrap(c.minutes) \div 60) \o ":"
             \o Pad(Unwrap(c.minutes) % 60, 2)
        ELSE "")
    \o "\n"

RECURSIVE render_clocks(_)
render_clocks(clocks) ==
    IF Len(clocks) = 0 THEN ""
    ELSE render_clock(clocks[1]) \o render_clocks(Tail(clocks))

RECURSIVE render_raw(_)
render_raw(raw) == IF Len(raw) = 0 THEN "" ELSE raw[1] \o "\n" \o render_raw(Tail(raw))

render_logbook(log) ==
    ":LOGBOOK:\n" \o render_clocks(log.clock) \o render_raw(log.raw) \o ":END:\n"

RECURSIVE render_block(_)
RECURSIVE render_blocks(_)
RECURSIVE render_list_items(_, _)
RECURSIVE render_item_content(_, _)

\* the loop of the Drawer arm of render_block
render_blocks(blocks) ==
    IF Len(blocks) = 0 THEN ""
    ELSE render_block(blocks[1]) \o render_blocks(Tail(blocks))

\* the loop over item.content of render_list
render_item_content(content, is_first) ==
    IF Len(content) = 0 THEN ""
    ELSE (IF is_first THEN TrimEndMatches(render_block(content[1]), "\n") \o "\n"
          ELSE "  " \o render_block(content[1]))
         \o render_item_content(Tail(content), FALSE)

\* the bullet, checkbox and label of one item
render_item_prefix(kind, item) ==
    (IF kind = "Unordered" THEN "-" ELSE IF kind = "Ordered" THEN "1." ELSE "::")
    \o " "
    \o (IF IsSome(item.checkbox)
        THEN "[" \o (IF Unwrap(item.checkbox) = "Empty" THEN " "
                     ELSE IF Unwrap(item.checkbox) = "Partial" THEN "-"
                     ELSE "X") \o "] "
        ELSE "")
    \o (IF IsSome(item.label) THEN render_rich_text(Unwrap(item.label)) \o " :: " ELSE "")

render_list_items(kind, items) ==
    IF Len(items) = 0 THEN ""
    ELSE render_item_prefix(kind, items[1])
         \o (IF Len(items[1].content) = 0 THEN "\n"
             ELSE render_item_content(items[1].content, TRUE))
         \o render_list_items(kind, Tail(items))

render_list(list) == render_list_items(list.kind, list.items)

render_block(block) ==
    IF block.t = "Paragraph" THEN render_rich_text(block.inlines) \o "\n"
    ELSE IF block.t = "List" THEN render_list(block.list)
    ELSE IF block.t = "Drawer"
    THEN ":" \o block.drawer.name \o ":\n" \o render_blocks(block.drawer.content) \o ":END:\n"
    ELSE IF block.t = "HorizontalRule" THEN "-----\n"
    ELSE "#+" \o block.key \o ": " \o block.value \o "\n"

append_block(out, block, source) ==
    IF IsSome(block.source) /\ IsSome(source)
    THEN out \o slice(Unwrap(block.source), Unwrap(source))
    ELSE out \o render_block(block.block)

RECURSIVE append_blocks(_, _, _)
append_blocks(out, blocks, source) ==
    IF Len(blocks) = 0 THEN out
    ELSE append_blocks(append_block(out, blocks[1], source), Tail(blocks), source)

RECURSIVE render_tags(_)
render_tags(tags) == IF Len(tags) = 0 THEN "" ELSE tags[1] \o ":" \o render_tags(Tail(tags))

render_headline(heading) ==
    Repeat("*", heading.level) \o " "
    \o (IF IsSome(heading.todo) THEN Unwrap(heading.todo).text \o " " ELSE "")
    \o (IF IsSome(heading.priority) THEN "[#" \o Unwrap(heading.priority) \o "] " ELSE "")
    \o render_rich_text(heading.title)
    \o (IF heading.tags # {} THEN " :" \o render_tags(SortedTags(heading.tags)) ELSE "")
    \o "\n"

\* the text format_heading emits for the planning line
emit_planning(heading, source) ==
    IF IsSome(heading.planning_range)
    THEN (IF IsSome(source) THEN slice(Unwrap(heading.planning_range), Unwrap(source)) ELSE "")
    ELSE IF IsSome(heading.planning.scheduled) \/ IsSome(heading.planning.deadline)
            \/ IsSome(heading.planning.closed)
    THEN render_planning(heading.planning)
    ELSE ""

\* the text format_heading emits for the PROPERTIES drawer
emit_properties(heading, source) ==
    IF IsSome(heading.properties_range)
    THEN (IF IsSome(source) THEN slice(Unwrap(heading.properties_range), Unwrap(source))
          ELSE "")
    ELSE IF Len(heading.properties.props) > 0 THEN render_properties(heading.properties)
    ELSE ""

\* the text format_heading emits for the LOGBOOK drawer
emit_logbook(heading, source) ==
    IF IsSome(heading.logbook_range)
    THEN (IF IsSome(source) THEN slice(Unwrap(heading.logbook_range), Unwrap(source)) ELSE "")
    ELSE IF Len(heading.logbook.clock) > 0 \/ Len(heading.logbook.raw) > 0
    THEN render_logbook(heading.logbook)
    ELSE ""

\* an emit_headline that renders the headline whether or not its range is cached
emit_headline_rendered(heading, source) == render_headline(heading)

\* the text format_heading emits for the headline
emit_headline(heading, source) ==
    IF IsSome(heading.headline_range) /\ IsSome(source)
    THEN slice(Unwrap(heading.headline_range), Unwrap(source))
    ELSE render_headline(heading)

RECURSIVE format_heading(_, _, _, _)
RECURSIVE format_headings(_, _, _, _)

\* the newline format_heading puts before a nested heading
ensure_newline(out, is_root_level) ==
    IF ~is_root_level /\ ~EndsWith(out, "\n") THEN out \o "\n" ELSE out

format_heading(out, heading, source, is_root_level) ==
    format_headings(
        append_blocks(ensure_newline(out, is_root_level)
                        \o emit_headline(heading, source) \o emit_planning(heading, source)
                        \o emit_properties(heading, source) \o emit_logbook(heading, source),
                      heading.section, source),
        heading.children, source, FALSE)

\* the loops `for heading in ...` of format_org_file and format_heading
format_headings(out, headings, source, is_root_level) ==
    IF Len(headings) = 0 THEN out
    ELSE format_headings(format_heading(out, headings[1], source, is_root_level),
                         Tail(headings), source, is_root_level)

format_org_file(f) ==
    format_headings(append_blocks("", f.preamble, f.source_text),
                    f.headings, f.source_text, TRUE)

(***************************************************************************)
(* Mutations a collaborator applies to a parsed tree (pub fields and the   *)
(* mark_*_dirty methods)                                                   *)
(***************************************************************************)
mark_headline_dirty(h) == [h EXCEPT !.headline_range = None]
\* a mark_planning_dirty that clears the properties range as well
mark_planning_and_properties_dirty(h) ==
    [h EXCEPT !.planning_range = None, !.properties_range = None]
mark_planning_dirty(h) == [h EXCEPT !.planning_range = None]
mark_properties_dirty(h) == [h EXCEPT !.properties_range = None]
mark_logbook_dirty(h) == [h EXCEPT !.logbook_range = None]

DirtyKinds == {"headline", "planning", "properties", "logbook"}

mark_dirty(h, which) ==
    IF which = "headline" THEN mark_headline_dirty(h)
    ELSE IF which = "planning" THEN mark_planning_dirty(h)
    ELSE IF which = "properties" THEN mark_properties_dirty(h)
    ELSE mark_logbook_dirty(h)

\* Vec::insert(k, x) with a 0-based k
vec_insert(xs, k, x) == SubSeq(xs, 1, k) \o <<x>> \o SubSeq(xs, k + 1, Len(xs))

\* the block the insertion test puts into a section
InsertedBlock == BlockWithSource_new(Paragraph(<<Text("Inserted note")>>))

\* a heading of a tree is named by the indices leading to it from the roots
RECURSIVE HeadingPaths(_)
HeadingPaths(hs) ==
    UNION {{<<k>>} \cup {<<k>> \o q : q \in HeadingPaths(hs[k].children)} : k \in 1..Len(hs)}

RECURSIVE HeadingAt(_, _)
HeadingAt(hs, path) ==
    IF Len(path) = 1 THEN hs[path[1]] ELSE HeadingAt(hs[path[1]].children, Tail(path))

RECURSIVE insert_block_at(_, _, _, _)
\* headings[..].section.blocks.insert(k, block)
insert_block_at(hs, path, k, block) ==
    [hs EXCEPT ![path[1]] =
        IF Len(path) = 1 THEN [@ EXCEPT !.section = vec_insert(@, k, block)]
        ELSE [@ EXCEPT !.children = insert_block_at(@, Tail(path), k, block)]]

RECURSIVE mark_dirty_at(_, _, _)
mark_dirty_at(hs, path, which) ==
    [hs EXCEPT ![path[1]] =
        IF Len(path) = 1 THEN mark_dirty(@, which)
        ELSE [@ EXCEPT !.children = mark_dirty_at(@, Tail(path), which)]]

\* BlockWithSource::mark_dirty
block_mark_dirty(b) == [b EXCEPT !.source = None]

RECURSIVE mark_block_dirty_at(_, _, _)
\* headings[..].section.blocks[k].mark_dirty(), k counted from 1
mark_block_dirty_at(hs, path, k) ==
    [hs EXCEPT ![path[1]] =
        IF Len(path) = 1 THEN [@ EXCEPT !.section[k] = block_mark_dirty(@)]
        ELSE [@ EXCEPT !.children = mark_block_dirty_at(@, Tail(path), k)]]

\* the public fields of Heading a collaborator may assign, and the mark
\* operation whose range covers each
CoveredFields ==
    [level |-> "headline", title |-> "headline", todo |-> "headline",
     priority |-> "headline", tags |-> "headline", planning |-> "planning",
     properties |-> "properties", logbook |-> "logbook"]

\* an assignment of a new value to one public field of a heading
set_field(h, field) ==
    CASE field = "level" -> [h EXCEPT !.level = (h.level + 1) % LevelModulus]
      [] field = "title" -> [h EXCEPT !.title = <<Text("New")>>]
      [] field = "todo" -> [h EXCEPT !.todo = Some([text |-> "NEXT", is_done |-> FALSE])]
      [] field = "priority" -> [h EXCEPT !.priority = Some("B")]
      [] field = "tags" -> [h EXCEPT !.tags = @ \cup {"new"}]
      [] field = "planning" ->
            [h EXCEPT !.planning.deadline =
                Some([active |-> TRUE, date |-> [y |-> 2026, m |-> 1, d |-> 2],
                      time |-> None, tz |-> None, end |-> None, repeater |-> None,
                      delay |-> None])]
      [] field = "properties" ->
            [h EXCEPT !.properties.props = map_insert(@, "K", "v")]
      [] field = "logbook" -> [h EXCEPT !.logbook.raw = Append(@, "note")]

RECURSIVE set_field_at(_, _, _)
set_field_at(hs, path, field) ==
    [hs EXCEPT ![path[1]] =
        IF Len(path) = 1 THEN set_field(@, field)
        ELSE [@ EXCEPT !.children = set_field_at(@, Tail(path), field)]]

(***************************************************************************)
(* Serialize / Deserialize (serde derive)                                  *)
(***************************************************************************)
\* the fields of Heading marked skip_serializing, skip_deserializing
HeadingSkipped == {"headline_range", "planning_range", "properties_range", "logbook_range"}

\* a BlockWithSource that writes its source into the structured value
serialize_block_with_source(b) == b

\* BlockWithSource: `source` is skipped
serialize_block(b) == [block |-> b.block]

deserialize_block(v) == [block |-> v.block, source |-> None]

RECURSIVE serialize_heading(_)
serialize_heading(h) ==
    [f \in DOMAIN h \ HeadingSkipped |->
        IF f = "section" THEN [k \in 1..Len(h.section) |-> serialize_block(h.section[k])]
        ELSE IF f = "children"
        THEN [k \in 1..Len(h.children) |-> serialize_heading(h.children[k])]
        ELSE h[f]]

RECURSIVE deserialize_heading(_)
\* a skipped field takes its Default, None, whatever the value holds
deserialize_heading(v) ==
    [f \in DOMAIN v \cup HeadingSkipped |->
        IF f \in HeadingSkipped THEN None
        ELSE IF f = "section" THEN [k \in 1..Len(v.section) |-> deserialize_block(v.section[k])]
        ELSE IF f = "children"
        THEN [k \in 1..Len(v.children) |-> deserialize_heading(v.children[k])]
        ELSE v[f]]

\* OrgFile: `source_text` is skipped
serialize_file(org) ==
    [f \in DOMAIN org \ {"source_text"} |->
        IF f = "preamble" THEN [k \in 1..Len(org.preamble) |-> serialize_block(org.preamble[k])]
        ELSE IF f = "headings"
        THEN [k \in 1..Len(org.headings) |-> serialize_heading(org.headings[k])]
        ELSE org[f]]

deserialize_file(v) ==
    [f \in DOMAIN v \cup {"source_text"} |->
        IF f = "source_text" THEN None
        ELSE IF f = "preamble" THEN [k \in 1..Len(v.preamble) |-> deserialize_block(v.preamble[k])]
        ELSE IF f = "headings"
        THEN [k \in 1..Len(v.headings) |-> deserialize_heading(v.headings[k])]
        ELSE v[f]]

(***************************************************************************)
(* mod journal_new_entry_projector                                         *)
(***************************************************************************)
\* the arm of RichText::plain_text for a link without a description
plain_text_link(kind) ==
    IF kind.k = "Http" THEN kind.url
    ELSE IF kind.k = "File" THEN kind.path
    ELSE IF kind.k = "Id" THEN kind.id
    ELSE kind.protocol \o ":" \o kind.target

RECURSIVE plain_text(_)
\* RichText::plain_text
plain_text(xs) ==
    IF Len(xs) = 0 THEN ""
    ELSE (IF xs[1].t = "Emphasis" THEN plain_text(xs[1].children)
          ELSE IF xs[1].t = "Link"
          THEN (IF IsSome(xs[1].desc) THEN plain_text(Unwrap(xs[1].desc))
                ELSE plain_text_link(xs[1].kind))
          ELSE xs[1].s)
         \o plain_text(Tail(xs))

\* lower-case, runs of whitespace collapsed to one space, trimmed
normalize(s) == Join(split_whitespace(to_ascii_lowercase(s)), " ")

title_key(h) == normalize(plain_text(h.title))

looks_like_date_heading(title) ==
    With([t \in {Trim(title)} |->
        /\ Len(t) >= 10
        /\ AllIn(Take(t, 4), DigitChars)
        /\ CharAt(t, 5) = "-"
        /\ AllIn(Take(Drop(t, 5), 2), DigitChars)
        /\ CharAt(t, 8) = "-"
        /\ AllIn(Take(Drop(t, 8), 2), DigitChars)])

RECURSIVE done_items(_, _)
\* the inner loop of compute_done_keywords: the items after a "|"
done_items(items, done) ==
    IF Len(items) = 0 THEN {}
    ELSE IF items[1] = "|" THEN done_items(Tail(items), TRUE)
    ELSE (IF done THEN {items[1]} ELSE {}) \cup done_items(Tail(items), done)

compute_done_keywords(settings) ==
    With([out \in {UNION {done_items(settings.todo_sequences[k], FALSE) :
                            k \in 1..Len(settings.todo_sequences)}} |->
        IF out = {} THEN {"DONE", "CANCELLED", "CANCELED", "ABORTED", "VOID"} ELSE out])

is_incomplete_todo(h, settings) ==
    /\ IsSome(h.todo)
    /\ ~Unwrap(h.todo).is_done
    /\ Unwrap(h.todo).text \notin compute_done_keywords(settings)

\* ReschedulePolicy::default
ReschedulePolicy_default ==
    [scheduled_rule |-> "SetToTarget", deadline_rule |-> "ToTargetIfOverdue",
     keep_time_of_day |-> TRUE, default_time |-> None, preserve_active |-> TRUE,
     shift_from |-> None]

\* NaiveDate's order
date_lt(a, b) ==
    \/ a.y < b.y
    \/ a.y = b.y /\ a.m < b.m
    \/ a.y = b.y /\ a.m = b.m /\ a.d < b.d

\* the timestamps of a parsed file have no end, so the end-range arm is idle
rewrite_to_target(ts, target, policy) ==
    [ts EXCEPT !.date = target,
               !.time = IF policy.keep_time_of_day /\ IsSome(ts.time) THEN ts.time
                        ELSE policy.default_time,
               !.active = IF policy.preserve_active THEN @ ELSE TRUE]

\* ShiftByDeltaDays returns the timestamp as it is when shift_from is None
reschedule_ts(ts, target, policy, rule) ==
    IF rule = "SetToTarget" THEN rewrite_to_target(ts, target, policy)
    ELSE IF rule = "ToTargetIfOverdue"
    THEN (IF date_lt(ts.date, target) THEN rewrite_to_target(ts, target, policy) ELSE ts)
    ELSE ts

reschedule_planning_in_place(p, target, policy) ==
    [p EXCEPT !.scheduled = IF IsSome(@)
                            THEN Some(reschedule_ts(Unwrap(@), target, policy,
                                                    policy.scheduled_rule))
                            ELSE @,
              !.deadline = IF IsSome(@)
                           THEN Some(reschedule_ts(Unwrap(@), target, policy,
                                                   policy.deadline_rule))
                           ELSE @]

RECURSIVE scrub_heading_sources(_)
scrub_heading_sources(h) ==
    [mark_logbook_dirty(mark_properties_dirty(mark_planning_dirty(mark_headline_dirty(h))))
        EXCEPT !.section = [k \in 1..Len(h.section) |-> block_mark_dirty(h.section[k])],
               !.children = [k \in 1..Len(h.children) |-> scrub_heading_sources(h.children[k])]]

RECURSIVE bucket_push(_, _, _)
\* BucketTree::push: the entry of the path, made at the end when missing
bucket_push(buckets, path, h) ==
    IF Len(buckets) = 0 THEN <<<<path, <<h>>>>>>
    ELSE IF buckets[1][1] = path
    THEN <<<<path, Append(buckets[1][2], h)>>>> \o Tail(buckets)
    ELSE <<buckets[1]>> \o bucket_push(Tail(buckets), path, h)

\* the path with the heading's title pushed when the heading is a group
group_path(h, path) ==
    IF ~looks_like_date_heading(plain_text(h.title)) \/ Len(path) > 0
    THEN Append(path, plain_text(h.title))
    ELSE path

\* the `if is_incomplete_todo` block of collect_incomplete_todos on the
\* state st = [buckets, seen]
collect_one(settings, h, path, st, target, policy) ==
    With([key \in {<<[k \in 1..Len(path) |-> normalize(path[k])], title_key(h)>>} |->
        IF is_incomplete_todo(h, settings) /\ key \notin st.seen
        THEN [seen |-> st.seen \cup {key},
              buckets |-> bucket_push(st.buckets, key[1],
                  scrub_heading_sources(
                      [h EXCEPT !.children = <<>>,
                                !.planning = reschedule_planning_in_place(@, target, policy)]))]
        ELSE st])

RECURSIVE collect_incomplete_todos(_, _, _, _, _, _)
RECURSIVE collect_each(_, _, _, _, _, _)
collect_incomplete_todos(settings, h, path, st, target, policy) ==
    collect_each(settings, h.children, group_path(h, path),
                 collect_one(settings, h, group_path(h, path), st, target, policy),
                 target, policy)

\* the loops `for h in ..` over a list of headings
collect_each(settings, hs, path, st, target, policy) ==
    IF Len(hs) = 0 THEN st
    ELSE collect_each(settings, Tail(hs), path,
                      collect_incomplete_todos(settings, hs[1], path, st, target, policy),
                      target, policy)

\* the position of the first heading whose normalized title is key, else 0
first_match(hs, key) ==
    IF \E k \in 1..Len(hs) : title_key(hs[k]) = key
    THEN CHOOSE k \in 1..Len(hs) :
            title_key(hs[k]) = key /\ \A q \in 1..(k - 1) : title_key(hs[q]) # key
    ELSE 0

\* u8::saturating_add(1).min(8) and level.min(8)
level_min8(level) == IF level < 8 THEN level ELSE 8
saturating_inc(level) == IF level < LevelModulus - 1 THEN level + 1 ELSE LevelModulus - 1

RECURSIVE ensure_path_from(_, _, _)
\* the loop of ensure_path below the list `siblings`: a heading is made for each missing
\* component and the level of the heading on the path is set
ensure_path_from(siblings, path, level) ==
    IF Len(path) = 0 THEN siblings
    ELSE With([grown \in {IF first_match(siblings, normalize(path[1])) = 0
                          THEN Append(siblings, Heading_new(level_min8(level), <<Text(path[1])>>))
                          ELSE siblings} |->
         With([pos \in {first_match(grown, normalize(path[1]))} |->
            [grown EXCEPT ![pos] =
                [@ EXCEPT !.level = level_min8(level),
                          !.children = ensure_path_from(@, Tail(path), saturating_inc(level))]]])])

\* the keys of an IndexMap kept as a list of pairs
contains_key(m, k) == \E j \in 1..Len(m) : m[j][1] = k

RECURSIVE merge_props(_, _)
\* the loop over todo.properties.props of merge_todos
merge_props(existing, props) ==
    IF Len(props) = 0 THEN existing
    ELSE merge_props(
             IF ~contains_key(existing.properties.props, props[1][1])
             THEN mark_properties_dirty(
                      [existing EXCEPT !.properties.props = Append(@, props[1])])
             ELSE existing,
             Tail(props))

merge_headline(existing, todo) ==
    With([e1 \in {IF IsNone(existing.todo) /\ IsSome(todo.todo)
                  THEN mark_headline_dirty([existing EXCEPT !.todo = todo.todo])
                  ELSE existing} |->
    With([e2 \in {IF IsNone(e1.priority) /\ IsSome(todo.priority)
                  THEN mark_headline_dirty([e1 EXCEPT !.priority = todo.priority])
                  ELSE e1} |->
        IF todo.tags # {}
        THEN mark_headline_dirty([e2 EXCEPT !.tags = @ \cup todo.tags])
        ELSE e2])])

merge_planning_field(existing, todo, field) ==
    IF IsNone(existing.planning[field]) /\ IsSome(todo.planning[field])
    THEN mark_planning_dirty([existing EXCEPT !.planning[field] = todo.planning[field]])
    ELSE existing

merge_logbook(existing, todo) ==
    [(IF Len(todo.logbook.clock) > 0 \/ Len(todo.logbook.raw) > 0
      THEN mark_logbook_dirty(existing) ELSE existing)
        EXCEPT !.logbook.clock = @ \o todo.logbook.clock,
               !.logbook.raw = @ \o todo.logbook.raw]

\* the arm of merge_todos for a child of the same title
merge_existing(existing, todo) ==
    With([e3 \in {merge_planning_field(
                      merge_planning_field(
                          merge_planning_field(merge_headline(existing, todo), todo,
                                               "scheduled"),
                          todo, "deadline"),
                      todo, "closed")} |->
        merge_logbook(
            merge_props([e3 EXCEPT !.section = @ \o todo.section], todo.properties.props),
            todo)])

merge_one(parent, todo) ==
    IF first_match(parent.children, title_key(todo)) > 0
    THEN [parent EXCEPT !.children[first_match(parent.children, title_key(todo))] =
              merge_existing(@, todo)]
    ELSE [parent EXCEPT !.children =
              Append(@, [todo EXCEPT !.level = level_min8(saturating_inc(parent.level))])]

RECURSIVE merge_todos(_, _)
merge_todos(parent, todos) ==
    IF Len(todos) = 0 THEN parent
    ELSE merge_todos(merge_one(parent, scrub_heading_sources(todos[1])), Tail(todos))

RECURSIVE merge_at(_, _, _)
\* merge_todos on the heading get_mut_by_path finds
merge_at(hs, path, todos) ==
    [hs EXCEPT ![first_match(hs, normalize(path[1]))] =
        IF Len(path) = 1 THEN merge_todos(@, todos)
        ELSE [@ EXCEPT !.children = merge_at(@, Tail(path), todos)]]

\* ensure_path: an empty path stands for the heading "tasks"
use_path(path) == IF Len(path) = 0 THEN <<"tasks">> ELSE path

RECURSIVE merge_buckets(_, _)
\* the loop over buckets.into_flat_vec() of build_from_files_with_policy
merge_buckets(roots, buckets) ==
    IF Len(buckets) = 0 THEN roots
    ELSE merge_buckets(merge_at(ensure_path_from(roots, use_path(buckets[1][1]), 1),
                                use_path(buckets[1][1]), buckets[1][2]),
                       Tail(buckets))

RECURSIVE same_lengths(_, _)
\* the assert_eq! of transplant_ids holds at every level
same_lengths(src, dst) ==
    /\ Len(src) = Len(dst)
    /\ \A k \in 1..Len(src) : same_lengths(src[k].children, dst[k].children)

RECURSIVE transplant_ids(_, _)
transplant_ids(src, dst) ==
    [k \in 1..Len(dst) |->
        [dst[k] EXCEPT !.canonical_id = src[k].canonical_id,
                       !.children = transplant_ids(src[k].children, @)]]

\* NaiveDate::to_string
date_to_string(date) == Pad(date.y, 4) \o "-" \o Pad(date.m, 2) \o "-" \o Pad(date.d, 2)

clone_as_new_file(template) == [template EXCEPT !.path = None]

RECURSIVE collect_files(_, _, _, _)
\* the loop `for jf in journal_files`
collect_files(journal_files, st, date, policy) ==
    IF Len(journal_files) = 0 THEN st
    ELSE collect_files(Tail(journal_files),
                       collect_each(journal_files[1].settings, journal_files[1].headings,
                                    <<>>, st, date, policy),
                       date, policy)

\* new_file of build_from_files_with_policy after the bucket loop: the clone
\* of the template with the collected TODOs merged in
merged_file(template, journal_files, date, policy) ==
    [clone_as_new_file(template) EXCEPT
        !.title = IF IsNone(@) THEN Some(date_to_string(date)) ELSE @,
        !.headings = merge_buckets(@,
            collect_files(journal_files, [buckets |-> <<>>, seen |-> {}],
                          date, policy).buckets)]

\* val is the returned OrgFile; a result that is not ok stands for a panic
\* (expect, assert_eq!) and one with div set for a call that never returns
build_from_files_with_policy(template, journal_files, date, policy) ==
    With([new_file \in {merged_file(template, journal_files, date, policy)} |->
    With([repro \in {parse_org_from_str(new_file.path, format_org_file(new_file))} |->
        IF repro.div THEN repro
        ELSE IF ~repro.ok THEN Err("formatted journal entry should parse")
        ELSE IF ~same_lengths(new_file.headings, repro.val.headings)
        THEN Err("assertion failed: src.len() == dst.len()")
        ELSE Ok("", [repro.val EXCEPT
                        !.headings = transplant_ids(new_file.headings, @),
                        !.title = new_file.title,
                        !.file_tags = new_file.file_tags,
                        !.settings = new_file.settings,
                        !.path = new_file.path])])])

build_from_files(template, journal_files, date) ==
    build_from_files_with_policy(template, journal_files, date, ReschedulePolicy_default)

(***************************************************************************)
(* mod agenda_projector                                                    *)
(***************************************************************************)
\* ts_to_span: the start is the date with the time, or midnight without one
ts_to_span(ts) ==
    [start |-> [date |-> ts.date,
                time |-> IF IsSome(ts.time) THEN Unwrap(ts.time) ELSE [h |-> 0, mi |-> 0]],
     end |-> None]

\* todo_placeholder_span: NaiveDate::MIN at midnight
todo_placeholder_span == [start |-> [date |-> "MIN", time |-> [h |-> 0, mi |-> 0]], end |-> None]

\* AgendaItem::new; `pos` is the place of the heading in the tree and stands
\* for its HeadingId
AgendaItem_new(pos, kind, span, active, h, ctx) ==
    [source_heading |-> pos, when_kind |-> kind, span |-> span, active |-> active,
     title |-> plain_text(h.title), todo |-> h.todo, priority |-> h.priority,
     tags |-> SortedTags(h.tags), context_path |-> ctx]

make_item(pos, h, kind, ts, ctx) == AgendaItem_new(pos, kind, ts_to_span(ts), ts.active, h, ctx)

\* the items walk_heading pushes for the heading itself
own_items(pos, h, path, include_todos) ==
    (IF IsSome(h.planning.scheduled)
     THEN <<make_item(pos, h, "Scheduled", Unwrap(h.planning.scheduled), path)>> ELSE <<>>)
    \o (IF IsSome(h.planning.deadline)
        THEN <<make_item(pos, h, "Deadline", Unwrap(h.planning.deadline), path)>> ELSE <<>>)
    \o (IF IsSome(h.planning.closed)
        THEN <<make_item(pos, h, "Closed", Unwrap(h.planning.closed), path)>> ELSE <<>>)
    \o (IF /\ include_todos
           /\ IsSome(h.todo)
           /\ ~Unwrap(h.todo).is_done
           /\ IsNone(h.planning.scheduled)
           /\ IsNone(h.planning.deadline)
           /\ IsNone(h.planning.closed)
        THEN <<AgendaItem_new(pos, "Todo", todo_placeholder_span, FALSE, h, path)>>
        ELSE <<>>)

RECURSIVE walk_heading(_, _, _, _)
RECURSIVE walk_headings(_, _, _, _, _)

\* the items of the headings hs[k..], children of the heading at `pos`
walk_headings(hs, k, pos, path, include_todos) ==
    IF k > Len(hs) THEN <<>>
    ELSE walk_heading(hs[k], Append(pos, k), path, include_todos)
         \o walk_headings(hs, k + 1, pos, path, include_todos)

walk_heading(h, pos, path, include_todos) ==
    own_items(pos, h, Append(path, plain_text(h.title)), include_todos)
    \o walk_headings(h.children, 1, pos, Append(path, plain_text(h.title)), include_todos)

project_file_with_options(org, include_todos) ==
    walk_headings(org.headings, 1, <<>>, <<>>, include_todos)

(***************************************************************************)
(* Bounds and inputs                                                       *)
(***************************************************************************)
\* the most chunks a document of Spec is made of
MaxChunks == 3
\* the most chunks a document of FairSpec is made of
FairChunks == 2
\* the most fragments an inline text of InlineSpec is made of
MaxFrags == 3
\* the turns of a drawer loop that no longer advances are counted modulo this
MaxSpin == 3

\* the chunks documents are made of: headings of three levels, a paragraph
\* line, a blank line, a directive, a list item, a valid and an invalid
\* planning line, a LOGBOOK opener, a drawer that holds a line of stars, a
\* drawer closer, a line with a lone carriage return, a PROPERTIES drawer
\* and a LOGBOOK drawer with a CLOCK line
ChunkPalette ==
    {"* A\n", "** B\n", "*** C\n", "x\n", "\n", "#+title: T\n", "- it\n",
     "SCHEDULED: <2025-11-15>\n", "SCHEDULED: <2025-13-45>\n",
     ":LOGBOOK:\n", ":NOTE:\n* A\n:END:\n", ":END:\n", "x\ry\n",
     ":PROPERTIES:\n:ID: 1\n:END:\n",
     ":LOGBOOK:\nCLOCK: [2025-01-01 10:00]--[2025-01-01 11:00] =>  1:00\n:END:\n"}

RECURSIVE DocsOfChunks(_)
DocsOfChunks(n) ==
    IF n = 0 THEN {""} ELSE {d \o l : d \in DocsOfChunks(n - 1), l \in ChunkPalette}

Docs(max) == UNION {DocsOfChunks(n) : n \in 0..max}

\* the fragments inline texts are made of
InlinePalette ==
    {"a", " ", "\t", "*", "/", "[[", "]]", "][", "~", "\\", "h", "hi", "id:x", "<<", ">>",
     "[fn:", "]"}

RECURSIVE InlinesOfFrags(_)
InlinesOfFrags(n) ==
    IF n = 0 THEN {""} ELSE {d \o l : d \in InlinesOfFrags(n - 1), l \in InlinePalette}

InlineInputs == UNION {InlinesOfFrags(n) : n \in 0..MaxFrags}

NoEdit == [kind |-> "none"]

(***************************************************************************)
(* The state machine                                                       *)
(***************************************************************************)
InitWith(docs, inlines) ==
    /\ input \in docs
    /\ pc = "start"
    /\ file = None
    /\ err = None
    /\ formatted = None
    /\ first = None
    /\ edit = NoEdit
    /\ spin = 0
    /\ istr \in inlines
    /\ inl = None
    /\ journal = None
    /\ agenda = None
    /\ tree = None

Init == InitWith(Docs(MaxChunks), {""})

\* parse_org_from_str is a function of its text: its results on the documents
\* of FairSpec are tabulated once, so that whether a call can take its step
\* is decided by a lookup
ParseTable == [d \in Docs(FairChunks) |-> parse_org_from_str(None, d)]

parse_result(text) ==
    IF text \in DOMAIN ParseTable THEN ParseTable[text] ELSE parse_org_from_str(None, text)

\* a call of parse_org_from_str on `text`: the caller gets a document, or an
\* error, or the call never returns (a drawer loop spins at the end of input)
ParseCall(text) ==
    \E r \in {parse_result(text)} :
        /\ pc' = IF r.div THEN "spinning" ELSE IF r.ok THEN "parsed" ELSE "failed"
        /\ file' = IF r.ok THEN Some(r.val) ELSE None
        /\ err' = IF ~r.ok /\ ~r.div THEN Some(r.val) ELSE None
        /\ spin' = 0

\* parse_org_from_str(None, input)
Parse ==
    /\ pc = "start"
    /\ ParseCall(input)
    /\ UNCHANGED <<input, formatted, first, edit, istr, inl, journal, agenda, tree>>

\* one more turn of the loop of parse_logbook_drawer / parse_generic_drawer
\* at the end of the input: nothing is consumed, "" is pushed, the loop goes on
DrawerSpin ==
    /\ pc = "spinning"
    /\ spin' = (spin + 1) % MaxSpin
    /\ UNCHANGED <<input, pc, file, err, formatted, first, edit, istr, inl, journal, agenda, tree>>

\* format_org_file(&file)
Format ==
    /\ pc = "parsed"
    /\ formatted' = Some(format_org_file(Unwrap(file)))
    /\ pc' = "formatted"
    /\ UNCHANGED <<input, file, err, first, edit, spin, istr, inl, journal, agenda, tree>>

\* the second pass: parse_org_from_str on the text the first pass produced
Reparse ==
    /\ pc = "formatted"
    /\ edit = NoEdit
    /\ IsNone(first)
    /\ first' = formatted
    /\ formatted' = None
    /\ ParseCall(Unwrap(formatted))
    /\ UNCHANGED <<input, edit, istr, inl, journal, agenda, tree>>

Editable == pc = "parsed" /\ edit = NoEdit /\ IsNone(first)

\* heading.section.blocks.insert(k, BlockWithSource::new(..))
InsertBlock ==
    /\ Editable
    /\ \E path \in HeadingPaths(Unwrap(file).headings) :
         \E k \in 0..Len(HeadingAt(Unwrap(file).headings, path).section) :
            /\ file' = Some([Unwrap(file) EXCEPT
                               !.headings = insert_block_at(@, path, k, InsertedBlock)])
            /\ edit' = [kind |-> "insert", path |-> path, k |-> k]
    /\ UNCHANGED <<input, pc, err, formatted, first, spin, istr, inl, journal, agenda, tree>>

\* file.source_text = None
ClearSource ==
    /\ Editable
    /\ file' = Some([Unwrap(file) EXCEPT !.source_text = None])
    /\ edit' = [kind |-> "clear_source"]
    /\ UNCHANGED <<input, pc, err, formatted, first, spin, istr, inl, journal, agenda, tree>>

\* heading.mark_headline_dirty() and its three siblings
MarkDirty ==
    /\ Editable
    /\ \E path \in HeadingPaths(Unwrap(file).headings) : \E which \in DirtyKinds :
            /\ file' = Some([Unwrap(file) EXCEPT
                               !.headings = mark_dirty_at(@, path, which)])
            /\ edit' = [kind |-> "dirty", path |-> path, which |-> which]
    /\ UNCHANGED <<input, pc, err, formatted, first, spin, istr, inl, journal, agenda, tree>>

\* the file is written as a structured value and read back
SerdeRoundTrip ==
    /\ Editable
    /\ file' = Some(deserialize_file(serialize_file(Unwrap(file))))
    /\ edit' = [kind |-> "serde"]
    /\ UNCHANGED <<input, pc, err, formatted, first, spin, istr, inl, journal, agenda, tree>>

Next ==
    Parse \/ DrawerSpin \/ Format \/ Reparse \/ InsertBlock \/ ClearSource \/ MarkDirty
        \/ SerdeRoundTrip

Spec == Init /\ [][Next]_vars

\* parse_org_from_str runs on its caller's thread: a call that was made takes
\* its steps, and a loop that has a next turn takes it
FairInit == InitWith(Docs(FairChunks), {""})
FairSpec == FairInit /\ [][Next]_vars /\ WF_vars(Parse) /\ WF_vars(DrawerSpin)

\* the most chunks that follow the first headline in a document of EditSpec
MaxEditChunks == 2
\* the most edits made to one parsed tree in EditSpec
MaxEdits == 2

EditHeadlines == {"* A\n", "* TODO [#A] A :t:\n"}

\* the chunks that follow the first headline: planning lines of each keyword,
\* bracket and time shape, the two drawers, a paragraph line, a child heading
EditPalette ==
    {"SCHEDULED: <2025-11-15>\n", "DEADLINE: [2025-11-15 09:30]\n",
     "CLOSED: [2025-11-16]\n", "SCHEDULED: <2025-11-15 09:30>\n",
     ":PROPERTIES:\n:ID: 1\n:END:\n",
     ":LOGBOOK:\nCLOCK: [2025-01-01 10:00]--[2025-01-01 11:00] =>  1:00\n:END:\n",
     "x\n", "** B\n"}

RECURSIVE EditBodies(_)
EditBodies(n) ==
    IF n = 0 THEN {""} ELSE {d \o l : d \in EditBodies(n - 1), l \in EditPalette}

EditDocs == {h \o b : h \in EditHeadlines, b \in UNION {EditBodies(n) : n \in 0..MaxEditChunks}}

\* the edits made so far: the (path, range) pairs marked dirty, the
\* (path, index) pairs of blocks marked dirty, the (path, field) pairs assigned
EditLog ==
    IF edit.kind = "edits" THEN edit
    ELSE [kind |-> "edits", dirty |-> {}, blocks |-> {}, assigned |-> {}]

EditCount ==
    Cardinality(EditLog.dirty) + Cardinality(EditLog.blocks) + Cardinality(EditLog.assigned)

CanEdit == pc = "parsed" /\ edit.kind \in {"none", "edits"} /\ EditCount < MaxEdits

\* heading.mark_headline_dirty() and its three siblings, any number of times
MarkHeadingDirty ==
    /\ CanEdit
    /\ \E path \in HeadingPaths(Unwrap(file).headings) : \E which \in DirtyKinds :
            /\ file' = Some([Unwrap(file) EXCEPT
                               !.headings = mark_dirty_at(@, path, which)])
            /\ edit' = [EditLog EXCEPT !.dirty = @ \cup {<<path, which>>}]
    /\ UNCHANGED <<input, pc, err, formatted, first, spin, istr, inl, journal, agenda, tree>>

\* heading.section.blocks[k].mark_dirty()
MarkBlockDirty ==
    /\ CanEdit
    /\ \E path \in HeadingPaths(Unwrap(file).headings) :
         \E k \in 1..Len(HeadingAt(Unwrap(file).headings, path).section) :
            /\ file' = Some([Unwrap(file) EXCEPT
                               !.headings = mark_block_dirty_at(@, path, k)])
            /\ edit' = [EditLog EXCEPT !.blocks = @ \cup {<<path, k>>}]
    /\ UNCHANGED <<input, pc, err, formatted, first, spin, istr, inl, journal, agenda, tree>>

\* heading.<field> = <new value>, with no mark-dirty call; each field of a
\* heading is assigned at most once
AssignField ==
    /\ CanEdit
    /\ \E path \in HeadingPaths(Unwrap(file).headings) : \E field \in DOMAIN CoveredFields :
            /\ <<path, field>> \notin EditLog.assigned
            /\ file' = Some([Unwrap(file) EXCEPT
                               !.headings = set_field_at(@, path, field)])
            /\ edit' = [EditLog EXCEPT !.assigned = @ \cup {<<path, field>>}]
    /\ UNCHANGED <<input, pc, err, formatted, first, spin, istr, inl, journal, agenda, tree>>

EditInit == InitWith(EditDocs, {""})
EditNext == Parse \/ MarkHeadingDirty \/ MarkBlockDirty \/ AssignField \/ Format
EditSpec == EditInit /\ [][EditNext]_vars

\* the most chunks a template of JournalSpec is made of
MaxTemplateChunks == 2
\* the most chunks a journal file of JournalSpec is made of
MaxJournalChunks == 2

\* the chunks templates are made of: a paragraph line, a blank line, a
\* directive, two group headings, TODO headings of two levels, a planning
\* line
TemplatePalette ==
    {"x\n", "\n", "#+title: T\n", "* Tasks\n", "* Sub\n", "* TODO Template\n", "** TODO Sub\n",
     "SCHEDULED: <2025-02-01>\n"}

\* the chunks journal files are made of: open and closed TODO headings, one
\* with priority and tag, a date heading, a group heading, planning lines
\* before and after the target date, a paragraph line
JournalPalette ==
    {"* TODO Carry\n", "* DONE Old\n", "* 2025-02-01 Sat\n", "* Tasks\n", "** TODO Sub\n",
     "** TODO [#A] Sub :t:\n", "SCHEDULED: <2025-02-01>\n", "DEADLINE: <2025-03-01>\n", "x\n"}

RECURSIVE ChunkDocs(_, _)
ChunkDocs(palette, n) ==
    IF n = 0 THEN {""} ELSE {d \o l : d \in ChunkDocs(palette, n - 1), l \in palette}

TemplateDocs == UNION {ChunkDocs(TemplatePalette, n) : n \in 0..MaxTemplateChunks}
\* a journal whose open TODO lies nine levels deep
DeepJournal ==
    "* a\n** b\n*** c\n**** d\n***** e\n****** f\n******* g\n******** h\n********* TODO i\n"

JournalDocs == UNION {ChunkDocs(JournalPalette, n) : n \in 1..MaxJournalChunks} \cup {DeepJournal}

\* the date the new entry is built for
TargetDate == [y |-> 2025, m |-> 2, d |-> 2]

\* the parsed journal files handed to build_from_files: none or one
JournalFiles == IF IsSome(journal) THEN <<parse_result(Unwrap(journal)).val>> ELSE <<>>

\* build_from_files(&template, journal_files, date, false) on the parsed
\* template: the caller gets the new entry, or the call panics
BuildEntry ==
    /\ pc = "parsed"
    /\ edit = NoEdit
    /\ \E r \in {build_from_files(Unwrap(file), JournalFiles, TargetDate)} :
          /\ pc' = IF r.div THEN "spinning" ELSE IF r.ok THEN "parsed" ELSE "panicked"
          /\ file' = IF r.ok THEN Some(r.val) ELSE None
    /\ edit' = [kind |-> "built"]
    /\ UNCHANGED <<input, err, formatted, first, spin, istr, inl, journal, agenda, tree>>

JournalInit ==
    /\ input \in TemplateDocs
    /\ journal \in {None} \cup {Some(j) : j \in {d \in JournalDocs : parse_result(d).ok}}
    /\ pc = "start"
    /\ file = None
    /\ err = None
    /\ formatted = None
    /\ first = None
    /\ edit = NoEdit
    /\ spin = 0
    /\ istr = ""
    /\ inl = None
    /\ agenda = None
    /\ tree = None

JournalNext == Parse \/ BuildEntry \/ Format
JournalSpec == JournalInit /\ [][JournalNext]_vars

\* parse_inlines_str(istr)
ParseInline ==
    /\ pc = "start"
    /\ inl' = Some(parse_inlines_str(istr))
    /\ pc' = "inlined"
    /\ UNCHANGED <<input, file, err, formatted, first, edit, spin, istr, journal, agenda, tree>>

InlineInit == InitWith({""}, InlineInputs)
InlineNext == ParseInline
InlineSpec == InlineInit /\ [][InlineNext]_vars

\* the most fragments a link target of LinkSpec is made of
MaxTargetFrags == 3

\* the fragments link targets are made of
TargetPalette == {"https://", "http://", "id:", "file:", "::", ":", "a", " ", "b/c"}

RECURSIVE TargetsOfFrags(_)
TargetsOfFrags(n) ==
    IF n = 0 THEN {""} ELSE {d \o l : d \in TargetsOfFrags(n - 1), l \in TargetPalette}

LinkTargets == UNION {TargetsOfFrags(n) : n \in 0..MaxTargetFrags}

\* a bracketed link around every target, with and without a description
LinkInputs == {"[[" \o t \o "]]" : t \in LinkTargets}
                  \cup {"[[" \o t \o "][site]]" : t \in LinkTargets}

LinkInit == InitWith({""}, LinkInputs)
LinkSpec == LinkInit /\ [][InlineNext]_vars

\* the most chunks between the headline and the last line of a document of
\* PlanSpec
MaxPlanChunks == 3

\* the chunks of a heading body: planning lines of one field each, a line
\* that sets two fields and one of them twice, a paragraph line, a PROPERTIES
\* drawer, a child heading
PlanPalette ==
    {"SCHEDULED: <2025-11-15>\n", "DEADLINE: [2025-11-15 09:30]\n", "CLOSED: [2025-11-16]\n",
     "DEADLINE: <2025-12-01> SCHEDULED: <2025-11-20> SCHEDULED: <2025-11-21>\n",
     "x\n", ":PROPERTIES:\n:ID: 1\n:END:\n", "** B\n"}

\* the last line of a document: none, or a planning line without line ending
PlanTails == {"", "CLOSED: [2025-11-17]"}

PlanDocs ==
    {"* A\n" \o b \o t :
        b \in UNION {ChunkDocs(PlanPalette, n) : n \in 0..MaxPlanChunks}, t \in PlanTails}

PlanInit == InitWith(PlanDocs, {""})
PlanNext == Parse \/ Format
PlanSpec == PlanInit /\ [][PlanNext]_vars

\* the most chunks in the body of the nested heading of a document of
\* DepthSpec
MaxDepthChunks == 3

\* the chunks of the body of a nested heading: a paragraph line, a blank
\* line, a deeper child heading, a planning line, a PROPERTIES drawer, a
\* list item
DepthPalette ==
    {"x\n", "\n", "*** C\n", "SCHEDULED: <2025-11-15>\n", ":PROPERTIES:\n:ID: 1\n:END:\n",
     "- it\n"}

\* a root heading P whose only child A has the body
DepthDocs ==
    {"* P\n** A\n" \o b : b \in UNION {ChunkDocs(DepthPalette, n) : n \in 0..MaxDepthChunks}}

DepthInit == InitWith(DepthDocs, {""})
DepthNext == Parse \/ Format
DepthSpec == DepthInit /\ [][DepthNext]_vars

\* the most lines inside the LOGBOOK drawer of a document of LogSpec
MaxLogLines == 3

\* the lines of a LOGBOOK drawer: a clock with start only, with start and
\* end, with start, end and duration, with start and an open end, a note, a
\* blank line
LogPalette ==
    {"CLOCK: [2025-01-01 10:00]\n", "CLOCK: [2025-01-01 10:00]--[2025-01-01 11:30]\n",
     "CLOCK: [2025-01-01 10:00]--[2025-01-01 11:30] => 1:30\n",
     "CLOCK: [2025-01-01 10:00]--\n", "note\n", "\n"}

LogDocs ==
    {"* A\n:LOGBOOK:\n" \o b \o ":END:\n" :
        b \in UNION {ChunkDocs(LogPalette, n) : n \in 0..MaxLogLines}}

LogInit == InitWith(LogDocs, {""})
LogNext == Parse \/ Format
LogSpec == LogInit /\ [][LogNext]_vars

\* the star counts of the heading lines of LevelSpec: ordinary levels, the
\* levels around 8, and the counts around the width of the stored level
LevelCounts == {1, 2, 8, 9, 255, 256, 257}

Stars(n) == Repeat("*", n)

\* a heading line A of each star count, alone or followed by a heading line B
LevelDocs ==
    {Stars(n) \o " A\n" : n \in LevelCounts}
        \cup {Stars(n) \o " A\n" \o Stars(m) \o " B\n" : n \in LevelCounts, m \in LevelCounts}

LevelInit == InitWith(LevelDocs, {""})
LevelNext == Parse \/ Format
LevelSpec == LevelInit /\ [][LevelNext]_vars

\* the most fragments a link target of ExtentSpec is made of
MaxExtentFrags == 2

\* what follows the link in an inline text of ExtentSpec: nothing, text, a
\* link with description, a second link without, stray brackets
ExtentTails == {"", " x", " [[b][d]]", "[[c]]", "][", " ]]"}

ExtentTargets == UNION {TargetsOfFrags(n) : n \in 0..MaxExtentFrags}

\* a bracketed link without description, followed by a tail
ExtentInputs == {"[[" \o t \o "]]" \o tail : t \in ExtentTargets, tail \in ExtentTails}

ExtentInit == InitWith({""}, ExtentInputs)
ExtentSpec == ExtentInit /\ [][InlineNext]_vars

\* the most chunks a document of AgendaSpec is made of
MaxAgendaChunks == 3

\* the chunks of the documents of AgendaSpec: headings with an open keyword,
\* a done keyword and none, a child heading, planning lines
AgendaPalette ==
    {"* TODO A\n", "* DONE B\n", "* C\n", "** TODO D\n", "SCHEDULED: <2025-11-15>\n",
     "CLOSED: [2025-11-16]\n"}

AgendaDocs == UNION {ChunkDocs(AgendaPalette, n) : n \in 0..MaxAgendaChunks}

\* project_file_with_options(&file, ProjectOptions { include_todos })
ProjectAgenda ==
    /\ pc = "parsed"
    /\ edit = NoEdit
    /\ \E include_todos \in BOOLEAN :
          /\ agenda' = Some(project_file_with_options(Unwrap(file), include_todos))
          /\ edit' = [kind |-> "projected", include_todos |-> include_todos]
    /\ pc' = "projected"
    /\ UNCHANGED <<input, file, err, formatted, first, spin, istr, inl, journal, tree>>

AgendaInit == InitWith(AgendaDocs, {""})
AgendaNext == Parse \/ ProjectAgenda
AgendaSpec == AgendaInit /\ [][AgendaNext]_vars

\* parse_org_from_str taken one turn of the outer loop of parse_headings_tree
\* at a time.  Stage 1: parse_preamble; the locals of parse_headings_tree are
\* set up on what it left
TreeStart ==
    /\ pc = "start"
    /\ \E p \in {parse_preamble(input, Len(input))} :
          /\ pc' = IF p.div THEN "spinning" ELSE IF p.ok THEN "headings" ELSE "failed"
          /\ file' = IF p.ok THEN Some(file_of_preamble(None, input, p.val)) ELSE None
          /\ err' = IF ~p.ok /\ ~p.div THEN Some(to_anyhow("preamble", p).val) ELSE None
          /\ tree' = IF p.ok
                     THEN Some([i |-> p.rest, stack |-> <<>>, roots |-> <<>>, parsed |-> 0])
                     ELSE None
    /\ spin' = 0
    /\ UNCHANGED <<input, formatted, first, edit, istr, inl, journal, agenda>>

\* one turn of `while !i.is_empty()`: a stray line, or a headline with its
\* body and the placement of its node
TreeStep ==
    /\ pc = "headings"
    /\ Unwrap(tree).i # ""
    /\ \E t \in {Unwrap(tree)} :
       \E s \in {tree_step(t.i, t.stack, t.roots, Len(input))} :
          /\ pc' = IF s.div THEN "spinning" ELSE IF s.ok THEN "headings" ELSE "failed"
          /\ file' = IF s.ok THEN file ELSE None
          /\ err' = IF ~s.ok /\ ~s.div THEN Some(to_anyhow("headings", s).val) ELSE None
          /\ tree' = IF s.ok
                     THEN Some([i |-> s.rest, stack |-> s.val[1], roots |-> s.val[2],
                                parsed |-> t.parsed + (IF is_heading_line(t.i) THEN 1 ELSE 0)])
                     ELSE None
    /\ UNCHANGED <<input, formatted, first, edit, spin, istr, inl, journal, agenda>>

\* the end of the input: the stack is drained and the file is returned
TreeDrain ==
    /\ pc = "headings"
    /\ Unwrap(tree).i = ""
    /\ \E t \in {Unwrap(tree)} :
          /\ tree' = Some([t EXCEPT !.stack = <<>>, !.roots = drain(t.stack, t.roots)])
          /\ file' = Some([Unwrap(file) EXCEPT !.headings = drain(t.stack, t.roots)])
    /\ pc' = "parsed"
    /\ UNCHANGED <<input, err, formatted, first, edit, spin, istr, inl, journal, agenda>>

\* the documents of Spec and of LevelSpec
TreeDocs == Docs(MaxChunks) \cup LevelDocs

TreeInit == InitWith(TreeDocs, {""})
TreeNext == TreeStart \/ TreeStep \/ TreeDrain
TreeSpec == TreeInit /\ [][TreeNext]_vars

(***************************************************************************)
(* Properties                                                              *)
(***************************************************************************)
\* the text the last parse_org_from_str call was given
ParsedText == IF IsSome(first) THEN Unwrap(first) ELSE input

\* the first pass over an unmutated tree has been formatted
FirstPassDone == pc = "formatted" /\ edit = NoEdit /\ IsNone(first)

\* C1: round trip.  Whenever the parser accepts a text and the tree is not
\* mutated, format_org_file returns the text byte for byte.
C1_RoundTrip == FirstPassDone => formatted = Some(input)

\* C2: idempotence.  The text a second parse/format pass returns equals the
\* text the first pass returned.
C2_Idempotent == (pc = "formatted" /\ IsSome(first)) => formatted = first

\* the heading a block was inserted into, and the section after the insertion
C3_Section == HeadingAt(Unwrap(file).headings, edit.path).section

\* the largest end of the cached ranges of the heading's own lines
C3_OwnEnd(h) ==
    With([ends \in {{Unwrap(r).end : r \in {q \in {h.headline_range, h.planning_range,
                                                  h.properties_range, h.logbook_range} :
                                            IsSome(q)}}} |->
        CHOOSE m \in ends : \A x \in ends : x <= m])

\* the offset of the insertion in the original text: where the block that
\* now follows the new one begins, else where the block before it ends, else
\* where the heading's own lines end
C3_Offset ==
    IF edit.k + 2 <= Len(C3_Section) THEN Unwrap(C3_Section[edit.k + 2].source).start
    ELSE IF edit.k >= 1 THEN Unwrap(C3_Section[edit.k].source).end
    ELSE C3_OwnEnd(HeadingAt(Unwrap(file).headings, edit.path))

\* C3: insertion locality.  After a block without a cached range is inserted
\* at any position of a heading's section, format_org_file returns the
\* original text with the rendering of the new block spliced in at that
\* position, everything else byte-identical.
C3_InsertionLocal ==
    (pc = "formatted" /\ edit.kind = "insert") =>
        formatted = Some(Take(input, C3_Offset) \o render_block(InsertedBlock.block)
                         \o Drop(input, C3_Offset))

\* the decision rule of C4 for one node: the cached slice when both the range
\* and the source text are there, the rendering of the typed fields otherwise
C4_emit(range, source, nonempty, rendered) ==
    IF IsSome(range) /\ IsSome(source) THEN slice(Unwrap(range), Unwrap(source))
    ELSE IF nonempty THEN rendered ELSE ""

RECURSIVE C4_blocks(_, _)
C4_blocks(blocks, source) ==
    IF Len(blocks) = 0 THEN ""
    ELSE C4_emit(blocks[1].source, source, TRUE, render_block(blocks[1].block))
         \o C4_blocks(Tail(blocks), source)

C4_own(h, source) ==
    C4_emit(h.headline_range, source, TRUE, render_headline(h))
    \o C4_emit(h.planning_range, source,
               IsSome(h.planning.scheduled) \/ IsSome(h.planning.deadline)
                   \/ IsSome(h.planning.closed),
               render_planning(h.planning))
    \o C4_emit(h.properties_range, source, Len(h.properties.props) > 0,
               render_properties(h.properties))
    \o C4_emit(h.logbook_range, source,
               Len(h.logbook.clock) > 0 \/ Len(h.logbook.raw) > 0,
               render_logbook(h.logbook))

RECURSIVE C4_headings(_, _, _, _)
C4_headings(out, hs, source, is_root_level) ==
    IF Len(hs) = 0 THEN out
    ELSE C4_headings(
             C4_headings(ensure_newline(out, is_root_level) \o C4_own(hs[1], source)
                             \o C4_blocks(hs[1].section, source),
                         hs[1].children, source, FALSE),
             Tail(hs), source, is_root_level)

\* the text the decision rule gives for a whole file
C4_format(f) ==
    C4_headings(C4_blocks(f.preamble, f.source_text), f.headings, f.source_text, TRUE)

\* C4: per-node decision rule.  Every block, headline, planning line,
\* PROPERTIES drawer and LOGBOOK drawer is copied from the source when it has
\* a cached range and the file has its source text, and rendered from the
\* typed fields in every other case.
C4_DecisionRule == pc = "formatted" => formatted = Some(C4_format(Unwrap(file)))

\* C5: parse termination.  Every call of parse_org_from_str returns a
\* document or an error.
C5_ParseTerminates == (pc = "start") ~> (pc \in {"parsed", "failed"})

\* the end of the first line of a text: the offset of its line feed, or the
\* length of the text when it has none
C6_LineEnd(text) == IF Find(text, "\n") >= 0 THEN Find(text, "\n") ELSE Len(text)

\* a line holds a carriage return that no line feed follows
C6_LoneCR(text) ==
    With([p \in {Find(Take(text, C6_LineEnd(text)), "\r")} |->
        p >= 0 /\ ~(p + 1 = C6_LineEnd(text) /\ Find(text, "\n") >= 0)])

RECURSIVE C6_Failure(_, _)
\* the failure C6 describes for a text, None when it has none: the first
\* line that is no heading line and cannot be read as a line names the stage
\* by whether a heading line came before it, and is shown alone
C6_Failure(text, seen_heading) ==
    IF text = "" THEN None
    ELSE IF is_heading_line(text) THEN C6_Failure(Drop(text, C6_LineEnd(text) + 1), TRUE)
    ELSE IF C6_LoneCR(text)
    THEN Some([label |-> IF seen_heading THEN "headings" ELSE "preamble",
               show |-> Take(text, C6_LineEnd(text))])
    ELSE C6_Failure(Drop(text, C6_LineEnd(text) + 1), seen_heading)

\* C6: parse failure is all-or-nothing and labelled.  A call that failed
\* returned no document and an error that names the stage `preamble` before
\* the first heading line and `headings` from it on, and shows the first line
\* of the remaining input only; a call that returned a document returned no
\* error and read the whole text.
C6_AllOrNothing ==
    /\ pc = "failed" => IsNone(file) /\ IsSome(err) /\ err = C6_Failure(ParsedText, FALSE)
    /\ pc \in {"parsed", "formatted"} =>
           IsSome(file) /\ IsNone(err) /\ IsNone(C6_Failure(ParsedText, FALSE))

\* a failure in the headings stage with further lines after the failing one
C6_Witness ==
    /\ pc = "failed"
    /\ err = Some([label |-> "headings", show |-> "x\ry"])
    /\ EndsWith(input, "x\ry\nx\n")

\* a date of the shape YYYY-MM-DD that names no day of the calendar
C7_BadDate(s) ==
    /\ AllIn(Take(s, 4), DigitChars) /\ Len(s) >= 10
    /\ CharAt(s, 5) = "-" /\ AllIn(SubSeq(s, 6, 7), DigitChars)
    /\ CharAt(s, 8) = "-" /\ AllIn(SubSeq(s, 9, 10), DigitChars)
    /\ IsNone(from_ymd_opt(ToNat(Take(s, 4)), ToNat(SubSeq(s, 6, 7)), ToNat(SubSeq(s, 9, 10))))

\* a planning line whose timestamp has invalid numerals
C7_BadPlanningLine(line) ==
    \E kw \in {"SCHEDULED: <", "DEADLINE: <", "CLOSED: <"} :
        StartsWith(line, kw) /\ C7_BadDate(Drop(line, Len(kw)))

\* C7: timestamp construction failure.  When the line after a headline is a
\* planning line whose timestamp has invalid calendar numerals, the call of
\* parse_org_from_str fails.
C7_InvalidStampFails ==
    (/\ pc \in {"parsed", "failed", "spinning"} /\ IsNone(first)
     /\ is_heading_line(input)
     /\ C7_BadPlanningLine(Drop(input, C6_LineEnd(input) + 1)))
    => pc = "failed"

RECURSIVE PreOrder(_)
\* the headings of a forest in pre-order
PreOrder(hs) ==
    IF Len(hs) = 0 THEN <<>>
    ELSE <<hs[1]>> \o PreOrder(hs[1].children) \o PreOrder(Tail(hs))

\* the levels of a sequence of headings
Levels(hs) == [k \in 1..Len(hs) |-> hs[k].level]

\* C8: tree shape.  In every tree the parser returns, the children of a
\* heading have levels strictly greater than its own, and a pre-order walk
\* meets the headings in the order of their headline lines.
C8_TreeShape ==
    (IsSome(file) /\ edit = NoEdit) =>
        With([w \in {PreOrder(Unwrap(file).headings)} |->
            /\ \A k \in 1..Len(w) : \A c \in 1..Len(w[k].children) :
                   w[k].children[c].level > w[k].level
            /\ \A k \in 1..(Len(w) - 1) :
                   Unwrap(w[k].headline_range).start < Unwrap(w[k + 1].headline_range).start])

\* headlines of levels 1, 3, 2: one root, its children the level-3 heading
\* and then the level-2 heading
C8_Witness ==
    /\ pc = "parsed" /\ edit = NoEdit
    /\ Levels(PreOrder(Unwrap(file).headings)) = <<1, 3, 2>>
    /\ Levels(Unwrap(file).headings) = <<1>>
    /\ Levels(Unwrap(file).headings[1].children) = <<3, 2>>

RECURSIVE C9_HeadingLines(_, _)
\* the offsets of the lines of a text that begin with stars and a space
C9_HeadingLines(text, base_len) ==
    IF text = "" THEN {}
    ELSE (IF is_heading_line(text) THEN {base_len - Len(text)} ELSE {})
         \cup C9_HeadingLines(Drop(text, C6_LineEnd(text) + 1), base_len)

\* the offsets of the headlines of the headings of a forest
C9_Headings(hs) ==
    {Unwrap(PreOrder(hs)[k].headline_range).start : k \in 1..Len(PreOrder(hs))}

\* C9: heading recognition.  The lines that begin with one or more `*` and a
\* space are exactly the lines that became Heading nodes, wherever they are.
C9_HeadingRecognition ==
    (pc = "parsed" /\ edit = NoEdit /\ IsNone(first)) =>
        C9_Headings(Unwrap(file).headings) = C9_HeadingLines(input, Len(input))

\* the non-empty substrings of a text: what a loop of the inline parser can
\* be left with
C10_Substrings(s) == {SubSeq(s, a, b) : a \in 1..Len(s), b \in 1..Len(s)} \ {""}

\* C10: inline parser totality.  parse_inlines_str returns the nodes of a
\* parse that read the whole text; a turn of its loops, on whatever is left
\* of the text, consumes at least one char, and when no recognizer matches
\* it yields the next char as a Text of one char.
C10_InlineTotal ==
    pc = "inlined" =>
        /\ parse_inlines(istr).ok /\ parse_inlines(istr).rest = ""
        /\ inl = Some(coalesce_text(parse_inlines(istr).val))
        /\ \A t \in C10_Substrings(istr) :
               With([r \in {inline_step(t)} |->
                   /\ r.ok /\ Len(r.rest) < Len(t) /\ EndsWith(t, r.rest)
                   /\ ~inline_atom(t).ok => r.val = Text(CharAt(t, 1)) /\ r.rest = Drop(t, 1)])

\* a text whose emphasis body holds chars no recognizer matches
C10_Witness ==
    /\ pc = "inlined"
    /\ istr = "*[[*"
    /\ inl = Some(<<Emphasis("Bold", <<Text("["), Text("[")>>)>>)

\* the literal Text nodes of a list are never neighbours, at this level, in
\* every Emphasis children list and in every link description
RECURSIVE C11_Coalesced(_)
C11_Coalesced(xs) ==
    /\ \A k \in 1..(Len(xs) - 1) : ~(xs[k].t = "Text" /\ xs[k + 1].t = "Text")
    /\ \A k \in 1..Len(xs) :
        /\ xs[k].t = "Emphasis" => C11_Coalesced(xs[k].children)
        /\ (xs[k].t = "Link" /\ IsSome(xs[k].desc)) => C11_Coalesced(Unwrap(xs[k].desc))

\* C11: inline coalescing.  In the result of parse_inlines_str no two
\* adjacent nodes are both Text, at the top level, inside emphasis children
\* and inside link descriptions.
C11_InlineCoalesced == pc = "inlined" => C11_Coalesced(Unwrap(inl))

\* the target written between the brackets of a link of LinkInputs
C12_Target ==
    IF EndsWith(istr, "][site]]") THEN Take(Drop(istr, 2), Len(istr) - 10)
    ELSE Take(Drop(istr, 2), Len(istr) - 4)

\* the offsets at which sep occurs in s
C12_Occurrences(s, sep) == {m \in 0..Len(s) : StartsWith(Drop(s, m), sep)}

C12_Contains(s, sep) == C12_Occurrences(s, sep) # {}

\* the offset of the first occurrence of sep in s
C12_First(s, sep) ==
    CHOOSE m \in C12_Occurrences(s, sep) : \A q \in C12_Occurrences(s, sep) : m <= q

C12_Before(s, sep) == Take(s, C12_First(s, sep))
C12_After(s, sep) == Drop(s, C12_First(s, sep) + Len(sep))

\* the classification of a trimmed target as the rule states it
C12_Kind(s) ==
    CASE StartsWith(s, "http://") \/ StartsWith(s, "https://") ->
            [k |-> "Http", url |-> s]
      [] StartsWith(s, "id:") ->
            [k |-> "Id", id |-> Drop(s, 3)]
      [] StartsWith(s, "file:") /\ C12_Contains(Drop(s, 5), "::") ->
            [k |-> "File", path |-> C12_Before(Drop(s, 5), "::"),
             search |-> Some(C12_After(Drop(s, 5), "::"))]
      [] StartsWith(s, "file:") /\ ~C12_Contains(Drop(s, 5), "::") ->
            [k |-> "File", path |-> Drop(s, 5), search |-> None]
      [] ~StartsWith(s, "http://") /\ ~StartsWith(s, "https://") /\ ~StartsWith(s, "id:")
            /\ ~StartsWith(s, "file:") /\ C12_Contains(s, ":") ->
            [k |-> "Custom", protocol |-> C12_Before(s, ":"), target |-> C12_After(s, ":")]
      [] ~C12_Contains(s, ":") ->
            [k |-> "File", path |-> s, search |-> None]

\* C12: link classification.  A bracketed link is one Link node whose kind
\* follows the rule Http, Id, File with search, Custom, bare File on the
\* trimmed target, and whose description is the parsed description text.
C12_LinkKind ==
    pc = "inlined" =>
        inl = Some(<<Link(C12_Kind(Trim(C12_Target)),
                          IF EndsWith(istr, "][site]]") THEN Some(<<Text("site")>>) ELSE None)>>)

\* a custom target with two colons, split at the first
C12_Witness ==
    /\ pc = "inlined"
    /\ istr = "[[a::b/c][site]]"
    /\ inl = Some(<<Link([k |-> "Custom", protocol |-> "a", target |-> ":b/c"],
                         Some(<<Text("site")>>))>>)

\* the cached range each mark operation of Heading is about
C13_RangeOf ==
    [headline |-> "headline_range", planning |-> "planning_range",
     properties |-> "properties_range", logbook |-> "logbook_range"]

\* the fields of a heading other than its child list
C13_OwnFields == DOMAIN Heading_new(1, <<>>) \ {"children"}

\* two forests have the same shape and agree on every field of every heading
\* except the fields `field` of the heading at `path`
C13_SameExcept(hs1, hs2, path, fields) ==
    /\ HeadingPaths(hs1) = HeadingPaths(hs2)
    /\ \A q \in HeadingPaths(hs1) : \A f \in C13_OwnFields :
          (q # path \/ f \notin fields) => HeadingAt(hs1, q)[f] = HeadingAt(hs2, q)[f]

\* a step that marks one range of the heading at pw[1] dirty
C13_HeadingStep ==
    \A pw \in EditLog'.dirty \ EditLog.dirty :
        /\ HeadingAt(Unwrap(file').headings, pw[1])[C13_RangeOf[pw[2]]] = None
        /\ C13_SameExcept(Unwrap(file).headings, Unwrap(file').headings, pw[1],
                          {C13_RangeOf[pw[2]]})
        /\ [Unwrap(file') EXCEPT !.headings = <<>>] = [Unwrap(file) EXCEPT !.headings = <<>>]

\* a step that marks the block pk[2] of the heading at pk[1] dirty
C13_BlockStep ==
    \A pk \in EditLog'.blocks \ EditLog.blocks :
        /\ C13_SameExcept(Unwrap(file).headings, Unwrap(file').headings, pk[1], {"section"})
        /\ With([old \in {HeadingAt(Unwrap(file).headings, pk[1]).section} |->
           With([new \in {HeadingAt(Unwrap(file').headings, pk[1]).section} |->
              /\ Len(new) = Len(old)
              /\ new[pk[2]] = [block |-> old[pk[2]].block, source |-> None]
              /\ \A k \in 1..Len(old) : k # pk[2] => new[k] = old[k]])])
        /\ [Unwrap(file') EXCEPT !.headings = <<>>] = [Unwrap(file) EXCEPT !.headings = <<>>]

\* a range or block source that is absent stays absent
C13_NeverRestored ==
    (IsSome(file) /\ IsSome(file')) =>
        \A q \in HeadingPaths(Unwrap(file).headings) \cap HeadingPaths(Unwrap(file').headings) :
           With([old \in {HeadingAt(Unwrap(file).headings, q)} |->
           With([new \in {HeadingAt(Unwrap(file').headings, q)} |->
              /\ \A w \in DirtyKinds : IsNone(old[C13_RangeOf[w]]) => IsNone(new[C13_RangeOf[w]])
              /\ \A k \in 1..Len(old.section) :
                    (k <= Len(new.section) /\ IsNone(old.section[k].source))
                        => IsNone(new.section[k].source)])])

\* C13: mark-dirty frame.  Each mark operation of a heading clears its own
\* range and nothing else, BlockWithSource::mark_dirty clears only the
\* source of its block, and a cleared range is never restored.
C13_MarkDirtyFrame == [][C13_HeadingStep /\ C13_BlockStep /\ C13_NeverRestored]_vars

\* the planning range and the first block of a heading were marked dirty;
\* the headline range is still cached
C13_Witness ==
    /\ pc = "parsed"
    /\ edit.kind = "edits"
    /\ edit.dirty = {<<<<1>>, "planning">>}
    /\ edit.blocks = {<<<<1>>, 1>>}
    /\ IsSome(Unwrap(file).headings[1].headline_range)
    /\ IsNone(Unwrap(file).headings[1].planning_range)
    /\ IsNone(Unwrap(file).headings[1].section[1].source)
    /\ input = "* A\nSCHEDULED: <2025-11-15>\nx\n"

\* a timestamp with the given bracket kind, date and optional time
C14_Stamp(active, y, m, d, time) ==
    [active |-> active, date |-> [y |-> y, m |-> m, d |-> d], time |-> time,
     tz |-> None, end |-> None, repeater |-> None, delay |-> None]

\* the planning each single planning line of EditPalette stands for
C14_Expected ==
    [l \in {"SCHEDULED: <2025-11-15>\n", "DEADLINE: [2025-11-15 09:30]\n",
            "CLOSED: [2025-11-16]\n", "SCHEDULED: <2025-11-15 09:30>\n"} |->
        CASE l = "SCHEDULED: <2025-11-15>\n" ->
                [Planning0 EXCEPT !.scheduled = Some(C14_Stamp(TRUE, 2025, 11, 15, None))]
          [] l = "DEADLINE: [2025-11-15 09:30]\n" ->
                [Planning0 EXCEPT !.deadline =
                    Some(C14_Stamp(FALSE, 2025, 11, 15, Some([h |-> 9, mi |-> 30])))]
          [] l = "CLOSED: [2025-11-16]\n" ->
                [Planning0 EXCEPT !.closed = Some(C14_Stamp(FALSE, 2025, 11, 16, None))]
          [] l = "SCHEDULED: <2025-11-15 09:30>\n" ->
                [Planning0 EXCEPT !.scheduled =
                    Some(C14_Stamp(TRUE, 2025, 11, 15, Some([h |-> 9, mi |-> 30])))]]

\* the tree the parser returned for the input, before any edit
C14_Parsed == parse_result(input).val

\* the source text of the planning range of the heading at `path`
C14_Line(path) ==
    slice(Unwrap(HeadingAt(C14_Parsed.headings, path).planning_range), input)

\* the only edit was mark_planning_dirty on a heading whose planning range
\* is one planning line
C14_Case(path) ==
    /\ edit.kind = "edits"
    /\ edit.dirty = {<<path, "planning">>}
    /\ edit.blocks = {}
    /\ edit.assigned = {}
    /\ IsSome(HeadingAt(C14_Parsed.headings, path).planning_range)
    /\ C14_Line(path) \in DOMAIN C14_Expected

\* C14: planning round trip under dirtying.  A single planning line parses to
\* the timestamp it writes, and after mark_planning_dirty the formatter
\* renders the line as it was and the document as it would without the call.
C14_PlanningRoundTrip ==
    \A path \in (IF IsSome(file) THEN HeadingPaths(Unwrap(file).headings) ELSE {}) :
        C14_Case(path) =>
            /\ HeadingAt(Unwrap(file).headings, path).planning = C14_Expected[C14_Line(path)]
            /\ render_planning(HeadingAt(Unwrap(file).headings, path).planning) = C14_Line(path)
            /\ pc = "formatted" => formatted = Some(format_org_file(C14_Parsed))

\* an inactive deadline with a time was marked dirty and formatted
C14_Witness ==
    /\ pc = "formatted"
    /\ C14_Case(<<1>>)
    /\ input = "* A\nDEADLINE: [2025-11-15 09:30]\nx\n"
    /\ formatted = Some(input)

\* the text synthesized from the current values of the fields a range covers
C15_Rendered(h, which) ==
    CASE which = "headline" -> render_headline(h)
      [] which = "planning" -> render_planning(h.planning)
      [] which = "properties" -> render_properties(h.properties)
      [] which = "logbook" -> render_logbook(h.logbook)

\* the parsed tree had a cached range over the field
C15_WasCached(path, field) ==
    IsSome(HeadingAt(C14_Parsed.headings, path)[C13_RangeOf[CoveredFields[field]]])

\* fields were assigned, every one under a cached range, and nothing was
\* marked dirty
C15_StaleCase ==
    /\ edit.kind = "edits"
    /\ edit.assigned # {}
    /\ edit.dirty = {}
    /\ edit.blocks = {}
    /\ \A pf \in edit.assigned : C15_WasCached(pf[1], pf[2])

\* C15: stale render without invalidation.  A field assigned under a cached
\* range and not marked dirty does not show: the formatter returns the text
\* of the untouched tree.  A field whose range was marked dirty shows: the
\* output holds the text synthesized from the heading's current values.
C15_StaleRender ==
    (pc = "formatted" /\ edit.kind = "edits") =>
        /\ C15_StaleCase => formatted = Some(format_org_file(C14_Parsed))
        /\ \A pf \in edit.assigned :
              <<pf[1], CoveredFields[pf[2]]>> \in edit.dirty =>
                  C12_Contains(Unwrap(formatted),
                               C15_Rendered(HeadingAt(Unwrap(file).headings, pf[1]),
                                            CoveredFields[pf[2]]))
        /\ \A pf \in edit.assigned :
              (C15_WasCached(pf[1], pf[2]) /\ <<pf[1], CoveredFields[pf[2]]>> \notin edit.dirty) =>
                  C12_Contains(Unwrap(formatted),
                               slice(Unwrap(HeadingAt(C14_Parsed.headings, pf[1])
                                                [C13_RangeOf[CoveredFields[pf[2]]]]), input))

\* the title and the tags were assigned with no mark-dirty call, and the
\* formatter returned the source text
C15_Witness ==
    /\ pc = "formatted"
    /\ C15_StaleCase
    /\ edit.assigned = {<<<<1>>, "title">>, <<<<1>>, "tags">>}
    /\ Unwrap(file).headings[1].title = <<Text("New")>>
    /\ input = "* TODO [#A] A :t:\nx\n"
    /\ formatted = Some(input)

\* C16: the journal entry is self-consistent.  The file build_from_files
\* returns has its source text, and formatting it returns that text.
C16_EntryStable ==
    (pc = "formatted" /\ edit.kind = "built") =>
        /\ IsSome(Unwrap(file).source_text)
        /\ formatted = Unwrap(file).source_text

RECURSIVE C17_HeadingsBare(_)
\* no heading value of a serialized forest holds a skipped field, and no
\* block value holds a source
C17_HeadingsBare(vs) ==
    \A k \in 1..Len(vs) :
        /\ DOMAIN vs[k] \cap HeadingSkipped = {}
        /\ \A j \in 1..Len(vs[k].section) : DOMAIN vs[k].section[j] = {"block"}
        /\ C17_HeadingsBare(vs[k].children)

\* the structured value of a file holds no source text, range or block source
C17_Bare(v) ==
    /\ "source_text" \notin DOMAIN v
    /\ \A j \in 1..Len(v.preamble) : DOMAIN v.preamble[j] = {"block"}
    /\ C17_HeadingsBare(v.headings)

\* the parsed tree with every cached range, block source and the source
\* text absent, and every typed field as parsed
C17_Stripped ==
    [C14_Parsed EXCEPT
        !.source_text = None,
        !.preamble = [k \in 1..Len(C14_Parsed.preamble) |->
                         [block |-> C14_Parsed.preamble[k].block, source |-> None]],
        !.headings = [k \in 1..Len(C14_Parsed.headings) |->
                         scrub_heading_sources(C14_Parsed.headings[k])]]

\* C17: serialization excludes the range cache.  The structured value of a
\* parsed file holds no cached range, block source or source text; the file
\* read back has all of them absent and every typed field as it was, and
\* formatting it synthesizes every node from the typed fields.
C17_SerdeDropsCache ==
    edit.kind = "serde" =>
        /\ C17_Bare(serialize_file(C14_Parsed))
        /\ file = Some(C17_Stripped)
        /\ pc = "formatted" =>
              formatted = Some(C4_format([C14_Parsed EXCEPT !.source_text = None]))

\* a LOGBOOK drawer written with two spaces before the duration comes back
\* in canonical form after the file went through its structured value
C17_Witness ==
    /\ pc = "formatted"
    /\ edit.kind = "serde"
    /\ input = "* A\n:LOGBOOK:\nCLOCK: [2025-01-01 10:00]--[2025-01-01 11:00] =>  1:00\n:END:\n"
    /\ formatted =
        Some("* A\n:LOGBOOK:\nCLOCK: [2025-01-01 10:00]--[2025-01-01 11:00] => 1:00\n:END:\n")

\* a cached range, when present, lies within a source of n bytes
C18_RangeOk(r, n) ==
    IsSome(r) => /\ 0 <= Unwrap(r).start
                 /\ Unwrap(r).start <= Unwrap(r).end
                 /\ Unwrap(r).end <= n

C18_BlocksOk(blocks, n) == \A k \in 1..Len(blocks) : C18_RangeOk(blocks[k].source, n)

RECURSIVE C18_HeadingsOk(_, _)
C18_HeadingsOk(hs, n) ==
    \A k \in 1..Len(hs) :
        /\ C18_RangeOk(hs[k].headline_range, n)
        /\ C18_RangeOk(hs[k].planning_range, n)
        /\ C18_RangeOk(hs[k].properties_range, n)
        /\ C18_RangeOk(hs[k].logbook_range, n)
        /\ C18_BlocksOk(hs[k].section, n)
        /\ C18_HeadingsOk(hs[k].children, n)

\* C18: ranges are valid offsets.  In the file a successful parse returns,
\* every cached range (preamble blocks, headline, planning, properties,
\* logbook, section blocks) has 0 <= start <= end <= length of source_text.
C18_RangesValid ==
    (pc = "parsed" /\ edit = NoEdit) =>
        /\ IsSome(Unwrap(file).source_text)
        /\ C18_BlocksOk(Unwrap(file).preamble, Len(Unwrap(Unwrap(file).source_text)))
        /\ C18_HeadingsOk(Unwrap(file).headings, Len(Unwrap(Unwrap(file).source_text)))

\* a parse that caches a preamble block, a headline and a planning line, the
\* last range ending at the end of the source
C18_Witness ==
    /\ pc = "parsed"
    /\ edit = NoEdit
    /\ input = "x\n* A\nSCHEDULED: <2025-11-15>\n"
    /\ Unwrap(file).preamble[1].source = Some([start |-> 0, end |-> 2])
    /\ Unwrap(file).headings[1].headline_range = Some([start |-> 2, end |-> 6])
    /\ Unwrap(file).headings[1].planning_range = Some([start |-> 6, end |-> 30])

\* what each planning line of PlanSpec sets, read off the line: the last
\* occurrence of a keyword within the line is the one that counts
C19_Table ==
    [l \in {"SCHEDULED: <2025-11-15>", "DEADLINE: [2025-11-15 09:30]", "CLOSED: [2025-11-16]",
            "DEADLINE: <2025-12-01> SCHEDULED: <2025-11-20> SCHEDULED: <2025-11-21>",
            "CLOSED: [2025-11-17]"} |->
        CASE l = "SCHEDULED: <2025-11-15>" ->
                [Planning0 EXCEPT !.scheduled = Some(C14_Stamp(TRUE, 2025, 11, 15, None))]
          [] l = "DEADLINE: [2025-11-15 09:30]" ->
                [Planning0 EXCEPT !.deadline =
                    Some(C14_Stamp(FALSE, 2025, 11, 15, Some([h |-> 9, mi |-> 30])))]
          [] l = "CLOSED: [2025-11-16]" ->
                [Planning0 EXCEPT !.closed = Some(C14_Stamp(FALSE, 2025, 11, 16, None))]
          [] l = "CLOSED: [2025-11-17]" ->
                [Planning0 EXCEPT !.closed = Some(C14_Stamp(FALSE, 2025, 11, 17, None))]
          [] OTHER ->
                [Planning0 EXCEPT !.deadline = Some(C14_Stamp(TRUE, 2025, 12, 1, None)),
                                  !.scheduled = Some(C14_Stamp(TRUE, 2025, 11, 21, None))]]

RECURSIVE C19_LinesFrom(_, _)
\* the lines of s, each with the offsets of its first byte and of the byte
\* after its line ending
C19_LinesFrom(s, off) ==
    IF s = "" THEN <<>>
    ELSE IF Find(s, "\n") < 0
    THEN <<[text |-> s, start |-> off, end |-> off + Len(s)]>>
    ELSE <<[text |-> Take(s, Find(s, "\n")), start |-> off, end |-> off + Find(s, "\n") + 1]>>
         \o C19_LinesFrom(Drop(s, Find(s, "\n") + 1), off + Find(s, "\n") + 1)

\* the line numbers of the heading lines
C19_Heads(lines) == {i \in 1..Len(lines) : StartsWith(lines[i].text, "*")}

\* the line numbers of the planning lines in the body of the heading whose
\* headline is line hd
C19_PlanningLines(lines, heads, hd) ==
    {i \in 1..Len(lines) :
        /\ i > hd
        /\ \A j \in heads : j > hd => i < j
        /\ lines[i].text \in DOMAIN C19_Table}

C19_Max(S) == CHOOSE x \in S : \A y \in S : y <= x
C19_Min(S) == CHOOSE x \in S : \A y \in S : x <= y

\* the value of `field` from the last of the lines of P that set it
C19_Field(lines, P, field) ==
    With([S \in {{i \in P : IsSome(C19_Table[lines[i].text][field])}} |->
        IF S = {} THEN None ELSE C19_Table[lines[C19_Max(S)].text][field]])

\* from the first byte of the first planning line to just after the line
\* ending of the last
C19_Range(lines, P) ==
    IF P = {} THEN None
    ELSE Some([start |-> lines[C19_Min(P)].start, end |-> lines[C19_Max(P)].end])

\* the planning and the planning range of a heading whose body has the
\* planning lines P
C19_Merged(lines, P) ==
    [planning |-> [scheduled |-> C19_Field(lines, P, "scheduled"),
                   deadline |-> C19_Field(lines, P, "deadline"),
                   closed |-> C19_Field(lines, P, "closed")],
     planning_range |-> C19_Range(lines, P)]

\* the headings of the parsed tree in document order: the root, then its
\* children
C19_Headings == <<Unwrap(file).headings[1]>> \o Unwrap(file).headings[1].children

\* the k-th heading line
C19_Head(heads, k) == CHOOSE i \in heads : Cardinality({j \in heads : j <= i}) = k

\* the headings hold what the lines of the document say
C19_Agree(lines, heads, hs) ==
    /\ Len(hs) = Cardinality(heads)
    /\ \A k \in 1..Len(hs) :
          [planning |-> hs[k].planning, planning_range |-> hs[k].planning_range]
              = C19_Merged(lines, C19_PlanningLines(lines, heads, C19_Head(heads, k)))

\* C19: planning merge.  Each heading holds for scheduled, deadline and
\* closed the value of the last planning line of its body (and the last
\* occurrence within that line) that sets the field, a field no later line
\* sets keeps its earlier value, and planning_range runs from the first byte
\* of the first planning line to just after the line ending of the last.
C19_PlanningMerge ==
    (pc = "parsed" /\ edit = NoEdit) =>
        /\ Len(Unwrap(file).headings) = 1
        /\ With([lines \in {C19_LinesFrom(input, 0)} |->
               C19_Agree(lines, C19_Heads(lines), C19_Headings)])

\* three planning lines, the second after a paragraph: SCHEDULED comes from
\* the last line, DEADLINE is kept from the first, CLOSED from the line
\* without line ending, and the range runs from byte 4 to the end of input
C19_Witness ==
    /\ pc = "parsed"
    /\ input = "* A\nDEADLINE: <2025-12-01> SCHEDULED: <2025-11-20> SCHEDULED: <2025-11-21>\n"
                   \o "x\nSCHEDULED: <2025-11-15>\nCLOSED: [2025-11-17]"
    /\ Unwrap(file).headings[1].planning =
          [scheduled |-> Some(C14_Stamp(TRUE, 2025, 11, 15, None)),
           deadline |-> Some(C14_Stamp(TRUE, 2025, 12, 1, None)),
           closed |-> Some(C14_Stamp(FALSE, 2025, 11, 17, None))]
    /\ Unwrap(file).headings[1].planning_range = Some([start |-> 4, end |-> 121])

\* a cached range as a sequence of none or one
C20_Piece(r) == IF IsSome(r) THEN <<Unwrap(r)>> ELSE <<>>

RECURSIVE C20_Blocks(_)
C20_Blocks(blocks) ==
    IF Len(blocks) = 0 THEN <<>>
    ELSE C20_Piece(blocks[1].source) \o C20_Blocks(Tail(blocks))

RECURSIVE C20_Emitted(_)
\* the cached ranges of a forest in the order the formatter emits them:
\* headline, planning, properties, logbook, section blocks, children
C20_Emitted(hs) ==
    IF Len(hs) = 0 THEN <<>>
    ELSE C20_Piece(hs[1].headline_range) \o C20_Piece(hs[1].planning_range)
         \o C20_Piece(hs[1].properties_range) \o C20_Piece(hs[1].logbook_range)
         \o C20_Blocks(hs[1].section) \o C20_Emitted(hs[1].children)
         \o C20_Emitted(Tail(hs))

\* no piece begins in the source before a piece emitted before it
C20_InSourceOrder(rs) ==
    \A i, j \in 1..Len(rs) : i < j => rs[i].start <= rs[j].start

\* C20: emission order preserves document order.  For an unmodified parsed
\* document the pieces the formatter emits (preamble blocks, then per heading
\* headline, planning, properties, logbook, section blocks, children) follow
\* one another in the order in which they occur in the source, also when a
\* paragraph precedes a planning line or drawer.
C20_EmissionInDocumentOrder ==
    (pc = "formatted" /\ edit = NoEdit) =>
        C20_InSourceOrder(C20_Blocks(Unwrap(file).preamble)
                              \o C20_Emitted(Unwrap(file).headings))

RECURSIVE C21_Promote(_)
\* the text of the lines with one star taken off every heading line
C21_Promote(lines) ==
    IF Len(lines) = 0 THEN ""
    ELSE (IF StartsWith(lines[1].text, "*") THEN Drop(lines[1].text, 1) ELSE lines[1].text)
         \o (IF lines[1].end - lines[1].start > Len(lines[1].text) THEN "\n" ELSE "")
         \o C21_Promote(Tail(lines))

\* the document in which the nested heading A of the input, with its body,
\* stands at the top level: the line of P is dropped and every heading line
\* loses one star
C21_Top == C21_Promote(Tail(C19_LinesFrom(input, 0)))

\* the offset in C21_Top of the byte at offset `off` of the input, for an
\* offset at the start of a line after the line of P
C21_Offset(off) ==
    off - 4 - Cardinality({k \in 2..Len(C19_LinesFrom(input, 0)) :
                              /\ StartsWith(C19_LinesFrom(input, 0)[k].text, "*")
                              /\ C19_LinesFrom(input, 0)[k].start < off})

C21_Range(r) ==
    IF IsSome(r)
    THEN Some([start |-> C21_Offset(Unwrap(r).start), end |-> C21_Offset(Unwrap(r).end)])
    ELSE None

RECURSIVE C21_Lifted(_)
\* a heading of the input as it reads in C21_Top: one level up, every range
\* at its offset in C21_Top
C21_Lifted(h) ==
    [h EXCEPT
        !.level = @ - 1,
        !.headline_range = C21_Range(@),
        !.planning_range = C21_Range(@),
        !.properties_range = C21_Range(@),
        !.logbook_range = C21_Range(@),
        !.section = [k \in 1..Len(h.section) |->
                        [block |-> h.section[k].block, source |-> C21_Range(h.section[k].source)]],
        !.children = [k \in 1..Len(h.children) |-> C21_Lifted(h.children[k])]]

\* C21: body parsing is the same at every depth.  The heading A scanned as a
\* nested child has the planning, drawers, section blocks, children and byte
\* ranges that the same heading with the same body has when it is scanned by
\* the top-level loop; in particular a paragraph ends where a deeper child
\* heading line begins.
C21_SameAtEveryDepth ==
    (pc = "parsed" /\ edit = NoEdit) =>
        /\ parse_result(C21_Top).ok
        /\ Len(Unwrap(file).headings) = 1
        /\ Len(Unwrap(file).headings[1].children) = 1
        /\ <<C21_Lifted(Unwrap(file).headings[1].children[1])>>
               = parse_result(C21_Top).val.headings

\* the lines of the input between the line :LOGBOOK: and the line :END:
C22_DrawerLines ==
    SubSeq(C19_LinesFrom(input, 0), 3, Len(C19_LinesFrom(input, 0)) - 1)

\* the clock entry each CLOCK line of LogSpec writes: end and minutes absent
\* when omitted, minutes = 60 * H + MM
C22_Clock ==
    [l \in {"CLOCK: [2025-01-01 10:00]", "CLOCK: [2025-01-01 10:00]--[2025-01-01 11:30]",
            "CLOCK: [2025-01-01 10:00]--[2025-01-01 11:30] => 1:30",
            "CLOCK: [2025-01-01 10:00]--"} |->
        [start |-> C14_Stamp(FALSE, 2025, 1, 1, Some([h |-> 10, mi |-> 0])),
         end |-> IF Find(l, "11:30") >= 0
                 THEN Some(C14_Stamp(FALSE, 2025, 1, 1, Some([h |-> 11, mi |-> 30])))
                 ELSE None,
         minutes |-> IF Find(l, "=>") >= 0 THEN Some(60 * 1 + 30) ELSE None,
         raw |-> None]]

RECURSIVE C22_Clocks(_)
\* the typed entries of the CLOCK lines, in order
C22_Clocks(lines) ==
    IF Len(lines) = 0 THEN <<>>
    ELSE (IF lines[1].text \in DOMAIN C22_Clock THEN <<C22_Clock[lines[1].text]>> ELSE <<>>)
         \o C22_Clocks(Tail(lines))

RECURSIVE C22_Raw(_)
\* every other line, verbatim and in order
C22_Raw(lines) ==
    IF Len(lines) = 0 THEN <<>>
    ELSE (IF lines[1].text \in DOMAIN C22_Clock THEN <<>> ELSE <<lines[1].text>>)
         \o C22_Raw(Tail(lines))

\* C22: logbook line classification.  Inside a LOGBOOK drawer every line
\* CLOCK: <start>, with or without --<end> and with or without => H:MM,
\* becomes a typed clock entry, every other line is kept verbatim in the raw
\* list, and no line is dropped.
C22_LogbookClassified ==
    (pc = "parsed" /\ edit = NoEdit) =>
        /\ Len(Unwrap(file).headings) = 1
        /\ Unwrap(file).headings[1].logbook.clock = C22_Clocks(C22_DrawerLines)
        /\ Unwrap(file).headings[1].logbook.raw = C22_Raw(C22_DrawerLines)

\* C23: identity re-attachment never fails.  For every template and journal
\* input build_from_files returns: the formatted merged tree parses back and
\* has the shape of the merged tree, so the assertion of transplant_ids holds
\* at every level.
C23_ReattachNeverFails ==
    edit.kind = "built" => pc # "panicked"

\* the template and the merged tree of the call BuildEntry made
C24_Template == parse_result(input).val
C24_Merged == merged_file(C24_Template, JournalFiles, TargetDate, ReschedulePolicy_default)

\* a range still cached on the heading `after` covers fields that are as
\* they were on the template heading `before`
C24_Disciplined(before, after) ==
    /\ IsSome(after.headline_range) =>
          /\ after.level = before.level
          /\ after.todo = before.todo
          /\ after.priority = before.priority
          /\ after.tags = before.tags
    /\ IsSome(after.planning_range) => after.planning = before.planning
    /\ IsSome(after.properties_range) => after.properties = before.properties
    /\ IsSome(after.logbook_range) => after.logbook = before.logbook

\* every template heading is disciplined in the merged forest; the merge
\* only appends headings, so a template heading keeps its place
C24_AllDisciplined(template, merged) ==
    \A path \in HeadingPaths(template) :
        C24_Disciplined(HeadingAt(template, path), HeadingAt(merged, path))

\* C24: the journal projector keeps the invalidation discipline.  Whenever
\* ensure_path or merge_todos changes a field of a template heading that a
\* cached range covers (level, TODO keyword, priority, tags; planning;
\* properties; logbook), that range is cleared before the tree is formatted.
C24_ProjectorInvalidates ==
    edit.kind = "built" => C24_AllDisciplined(C24_Template.headings, C24_Merged.headings)
\* space, tab, newline
C25_White == {" ", "\t", "\n"}

RECURSIVE C25_OpensTight(_)
\* no Emphasis node of the list, at any depth, has children that begin with
\* a whitespace character; the children begin at the char after the opening
\* delimiter
C25_OpensTight(xs) ==
    \A k \in 1..Len(xs) :
        /\ xs[k].t = "Emphasis" =>
              /\ ~(/\ Len(xs[k].children) > 0
                   /\ xs[k].children[1].t = "Text"
                   /\ CharAt(xs[k].children[1].s, 1) \in C25_White)
              /\ C25_OpensTight(xs[k].children)
        /\ (xs[k].t = "Link" /\ IsSome(xs[k].desc)) => C25_OpensTight(Unwrap(xs[k].desc))

\* C25: emphasis opening rule.  The inline parser never produces an Emphasis
\* node whose opening delimiter is immediately followed in the input by a
\* space, a tab or a newline.
C25_EmphasisOpensTight == pc = "inlined" => C25_OpensTight(Unwrap(inl))

\* the levels of a forest with its shape: <<level, children>> per heading
RECURSIVE C26_Shape(_)
C26_Shape(hs) == [k \in 1..Len(hs) |-> <<hs[k].level, C26_Shape(hs[k].children)>>]

\* the forest two heading lines of n and m stars stand for: B is a child of
\* A when it has more stars, and a root after A otherwise
C26_Expected(n, m) ==
    IF m > n THEN <<<<n, <<<<m, <<>>>>>>>>>>
    ELSE <<<<n, <<>>>>, <<m, <<>>>>>>

\* C26: unbounded heading level.  A heading line with n >= 1 stars is
\* accepted and its heading has level n, for n above 8 and above 255 too,
\* and nesting is decided by that n.
C26_LevelIsStarCount ==
    /\ pc # "failed"
    /\ (pc = "parsed" /\ edit = NoEdit) =>
          /\ \A n \in LevelCounts :
                input = Stars(n) \o " A\n" => C26_Shape(Unwrap(file).headings) = <<<<n, <<>>>>>>
          /\ \A n \in LevelCounts, m \in LevelCounts :
                input = Stars(n) \o " A\n" \o Stars(m) \o " B\n" =>
                    C26_Shape(Unwrap(file).headings) = C26_Expected(n, m)

\* C27: bracketed link extent.  `[[target]]` parses to a Link classified from
\* exactly `target`, without description, ending at the first `]]` after its
\* `[[` whatever follows: the nodes after it are those of the text that
\* follows.
C27_LinkExtent ==
    pc = "inlined" =>
        \A t \in ExtentTargets, tail \in ExtentTails :
            istr = "[[" \o t \o "]]" \o tail =>
                /\ Len(Unwrap(inl)) >= 1
                /\ Unwrap(inl)[1] = Link(C12_Kind(Trim(t)), None)
                /\ Tail(Unwrap(inl)) = parse_inlines_str(tail)

\* the ranges rs cover n bytes without gap or overlap, in their order
C28_Tiles(rs, n) ==
    /\ Len(rs) = 0 => n = 0
    /\ Len(rs) > 0 => rs[1].start = 0 /\ rs[Len(rs)].end = n
    /\ \A k \in 1..(Len(rs) - 1) : rs[k + 1].start = rs[k].end

\* C28: ranges tile the source.  In a parsed file the cached ranges, in the
\* order the formatter emits them, are contiguous: the first starts at 0,
\* each starts where the one before ended, the last ends at the input length.
C28_RangesTile ==
    (pc = "parsed" /\ edit = NoEdit) =>
        C28_Tiles(C20_Blocks(Unwrap(file).preamble) \o C20_Emitted(Unwrap(file).headings),
                  Len(input))

\* the keywords that are done states
C29_DoneStates == {"DONE"}

\* the kinds of the items projected for the heading at `path`, in order
C29_Kinds(path) ==
    [k \in 1..Len(SelectSeq(Unwrap(agenda), LAMBDA it : it.source_heading = path)) |->
        SelectSeq(Unwrap(agenda), LAMBDA it : it.source_heading = path)[k].when_kind]

\* the kinds the claim gives a heading: its planning items, or one Todo item
\* when it has an open keyword and no planning
C29_Expected(h) ==
    IF IsSome(h.planning.scheduled) \/ IsSome(h.planning.deadline) \/ IsSome(h.planning.closed)
    THEN (IF IsSome(h.planning.scheduled) THEN <<"Scheduled">> ELSE <<>>)
         \o (IF IsSome(h.planning.deadline) THEN <<"Deadline">> ELSE <<>>)
         \o (IF IsSome(h.planning.closed) THEN <<"Closed">> ELSE <<>>)
    ELSE IF IsSome(h.todo) /\ Unwrap(h.todo).text \notin C29_DoneStates THEN <<"Todo">>
    ELSE <<>>

\* C29: undated TODO projection.  With include_todos the agenda holds a Todo
\* item for a heading exactly when the heading has a TODO keyword that is not
\* a done state and no planning timestamp; a heading with planning yields
\* only its Scheduled, Deadline and Closed items.
C29_UndatedTodos ==
    (pc = "projected" /\ edit.include_todos) =>
        \A path \in HeadingPaths(Unwrap(file).headings) :
            C29_Kinds(path) = C29_Expected(HeadingAt(Unwrap(file).headings, path))

\* the result of the stepwise run is the result of the call
C30_SameAsCall ==
    (pc = "parsed" /\ IsSome(tree)) =>
        /\ parse_result(input).ok
        /\ Unwrap(file) = parse_result(input).val

\* C30: the level stack never nests.  Throughout parse_headings_tree the
\* stack holds at most one heading; every headline the outer loop has parsed
\* is a root or the one heading of the stack, so none was attached as a child
\* by the stack-pop code; and the roots, followed by the heading of the stack,
\* are in the order of their headline lines.
C30_StackNeverNests ==
    IsSome(tree) =>
        With([t \in {Unwrap(tree)} |->
        With([w \in {t.roots \o t.stack} |->
            /\ Len(t.stack) <= 1
            /\ Len(w) = t.parsed
            /\ \A k \in 1..(Len(w) - 1) :
                   Unwrap(w[k].headline_range).start < Unwrap(w[k + 1].headline_range).start])])

\* three headlines of levels 1, 2, 1 were parsed by two turns of the outer
\* loop: the first root has the level-2 heading as its child, the second
\* heading was placed while the first was on the stack
C30_Witness ==
    /\ IsSome(tree)
    /\ Unwrap(tree).parsed = 2
    /\ Levels(Unwrap(tree).roots) = <<1>>
    /\ Levels(Unwrap(tree).roots[1].children) = <<2>>
    /\ Levels(Unwrap(tree).stack) = <<1>>

=============================================================================
